---- MODULE Spec2Model ----
(***************************************************************************)
(* drizzle-seeder: the deferred-reference resolution and batched insertion *)
(* engine (SqliteSeeder.execute in src/src/sqlite-core/seed.ts; PgSeeder   *)
(* in src/unnamed/part_002 has the same control flow with awaited store    *)
(* calls and PG_MAX_PARAMETERS in place of SQLITE_MAX_PARAMETERS).         *)
(***************************************************************************)
EXTENDS Integers, Sequences, FiniteSets, TLC

\* seed.ts:20
SQLITE_MAX_PARAMETERS == 999

\* Longest stream the generator yields in a run.
MaxChunks == 3

Tables == {"books", "notes"}

\* Object.keys order of a chunk's columns (every chunk of the generator
\* carries every column of its table, generate.ts:161-199).
ColumnOrder == <<"id", "fk", "fk2">>

\* Column counts of the tables of the schema: 999 \div 400 = 2 rows per
\* batch, 999 \div 999 = 1 row per batch.
ColumnCounts == {400, 999}

(***************************************************************************)
(* Column values.  A chunk's column holds a JavaScript value, a            *)
(* GeneratedAsPlaceholder or a ColumnValueReference (placeholders.ts).     *)
(* JavaScript values: numbers (Plain: integers, Decimal: whole.tenths,     *)
(* NotANumber), strings, null, undefined, bigints, Dates (by their time    *)
(* value), arrays and plain objects (their entries in key order).          *)
(***************************************************************************)
Plain(n) == [kind |-> "plain", v |-> n]

Decimal(whole, tenths) == [kind |-> "decimal", whole |-> whole, tenths |-> tenths]

Str(chars) == [kind |-> "string", chars |-> chars]

Null == [kind |-> "null"]

Undefined == [kind |-> "undefined"]

NotANumber == [kind |-> "NaN"]

\* A bigint, by its decimal digits.
BigIntOf(digits) == [kind |-> "bigint", digits |-> digits]

DateOf(time) == [kind |-> "Date", time |-> time]

ArrayOf(items) == [kind |-> "Array", items |-> items]

ObjectOf(entries) == [kind |-> "Object", entries |-> entries]

\* { _tag: "GeneratedAsPlaceholder" }
generatedAsPlaceholder ==
  ObjectOf(<<[key |-> "_tag", value |-> Str("GeneratedAsPlaceholder")]>>)

columnValueReference(t, r, c, f) ==
  [kind |-> "ColumnValueReference", refTableName |-> t, refRowIndex |-> r,
   refColumnName |-> c, transformFn |-> f]

\* typeof x === "object" && x !== null && "_tag" in x && x._tag === tag
HasTag(x, tag) ==
  /\ x.kind = "Object"
  /\ \E i \in 1..Len(x.entries) :
       x.entries[i].key = "_tag" /\ x.entries[i].value = Str(tag)

isGeneratedAsPlaceholder(x) == HasTag(x, "GeneratedAsPlaceholder")

isColumnValueReference(x) == x.kind = "ColumnValueReference"

\* The transform functions users pass: (v) => v and (v) => v + 1.
TransformFns == {"identity", "inc"}

ApplyTransform(f, x) ==
  IF f = "identity" THEN x
  ELSE IF x.kind = "plain" THEN Plain(x.v + 1)
  ELSE NotANumber

(***************************************************************************)
(* devalue's stringify / parse as the seeder uses them on store columns.   *)
(* stringify flattens the value into a list of JSON cells that name each   *)
(* other by index (the text is "[cell0,cell1,...]"; cell 0 is the value):  *)
(* a number, string or null is its JSON literal, a bigint is               *)
(* ["BigInt","<digits>"], a Date is ["Date","<ISO time>"], an array is the *)
(* list of its items' indices and an object maps its keys to indices;      *)
(* equal primitives share one cell; undefined is the index -1 and NaN the  *)
(* index -3, which are also the whole text for these two values.           *)
(* stringify throws on a value that holds a function, which a              *)
(* ColumnValueReference does (its transformFn).                            *)
(***************************************************************************)
UNDEFINED == -1

NAN == -3

StringifyThrows(x) == isColumnValueReference(x)

isPrimitive(x) == x.kind \in {"plain", "decimal", "string", "null", "bigint"}

\* Date.prototype.toISOString and new Date(text), on the Dates in use.
Times == {0, 1000}

toISOString(time) ==
  IF time = 0 THEN "1970-01-01T00:00:00.000Z" ELSE "1970-01-01T00:00:01.000Z"

DateFromISO(text) == CHOOSE time \in Times : toISOString(time) = text

\* Faulty variant: a plain JSON encoding: a bigint becomes its digits, a
\* Date its ISO string.
CellOfJson(x) ==
  CASE x.kind = "plain" -> [json |-> "number", int |-> x.v]
    [] x.kind = "decimal" ->
         [json |-> "number", whole |-> x.whole, tenths |-> x.tenths]
    [] x.kind = "string" -> [json |-> "string", chars |-> x.chars]
    [] x.kind = "null" -> [json |-> "null"]
    [] x.kind = "bigint" -> [json |-> "string", chars |-> x.digits]
    [] x.kind = "Date" -> [json |-> "string", chars |-> toISOString(x.time)]

\* The cell of a primitive or of a Date.
CellOf(x) ==
  CASE x.kind = "plain" -> [json |-> "number", int |-> x.v]
    [] x.kind = "decimal" ->
         [json |-> "number", whole |-> x.whole, tenths |-> x.tenths]
    [] x.kind = "string" -> [json |-> "string", chars |-> x.chars]
    [] x.kind = "null" -> [json |-> "null"]
    [] x.kind = "bigint" -> [json |-> "tagged", tag |-> "BigInt", text |-> x.digits]
    [] x.kind = "Date" ->
         [json |-> "tagged", tag |-> "Date", text |-> toISOString(x.time)]

\* flatten(thing): the index of thing's cell, and the cells with thing's
\* cells added; flattenItems does the items of an array or the values of
\* an object, from the k-th on.
RECURSIVE flatten(_, _)
RECURSIVE flattenItems(_, _, _, _)
flatten(thing, cells) ==
  IF thing.kind = "undefined" THEN [index |-> UNDEFINED, cells |-> cells]
  ELSE IF thing.kind = "NaN" THEN [index |-> NAN, cells |-> cells]
  ELSE IF isPrimitive(thing)
          /\ \E i \in 1..Len(cells) : cells[i] = CellOf(thing)
  THEN [index |-> (CHOOSE i \in 1..Len(cells) :
                     cells[i] = CellOf(thing)) - 1,
        cells |-> cells]
  ELSE IF thing.kind \in {"Array", "Object"}
  THEN LET index == Len(cells)
           values == IF thing.kind = "Array" THEN thing.items
                     ELSE [k \in 1..Len(thing.entries) |-> thing.entries[k].value]
           r == flattenItems(values, 1, Append(cells, [json |-> "pending"]),
                             <<>>)
           str == IF thing.kind = "Array"
                  THEN [json |-> "array", at |-> r.indices]
                  ELSE [json |-> "object",
                        keys |-> [k \in 1..Len(thing.entries) |->
                                    thing.entries[k].key],
                        at |-> r.indices]
       IN [index |-> index, cells |-> [r.cells EXCEPT ![index + 1] = str]]
  ELSE [index |-> Len(cells), cells |-> Append(cells, CellOf(thing))]

flattenItems(values, k, cells, indices) ==
  IF k > Len(values) THEN [indices |-> indices, cells |-> cells]
  ELSE LET r == flatten(values[k], cells)
       IN flattenItems(values, k + 1, r.cells, Append(indices, r.index))

stringify(x) ==
  LET r == flatten(x, <<>>)
  IN [top |-> r.index, cells |-> r.cells]

\* hydrate(index): the value of the cell at index.
RECURSIVE hydrate(_, _)
hydrate(cells, index) ==
  IF index = UNDEFINED THEN Undefined
  ELSE IF index = NAN THEN NotANumber
  ELSE LET c == cells[index + 1]
       IN CASE c.json = "number" ->
                 IF "int" \in DOMAIN c THEN Plain(c.int)
                 ELSE Decimal(c.whole, c.tenths)
            [] c.json = "string" -> Str(c.chars)
            [] c.json = "null" -> Null
            [] c.json = "tagged" ->
                 IF c.tag = "BigInt" THEN BigIntOf(c.text)
                 ELSE DateOf(DateFromISO(c.text))
            [] c.json = "array" ->
                 ArrayOf([k \in 1..Len(c.at) |-> hydrate(cells, c.at[k])])
            [] c.json = "object" ->
                 ObjectOf([k \in 1..Len(c.at) |->
                            [key |-> c.keys[k],
                             value |-> hydrate(cells, c.at[k])]])

parse(s) == hydrate(s.cells, s.top)

(***************************************************************************)
(* The refine config's refs, parsed by the constructor into                *)
(* refsConfig: tableName -> Set<columnName>.                               *)
(***************************************************************************)
NoRefs == [t \in {} |-> {}]

RefsConfigs ==
  { NoRefs,
    [t \in {"books"} |-> {"id"}],
    [t \in Tables |-> {"id"}],
    [t \in Tables |-> IF t = "notes" THEN {"fk"} ELSE {"id"}] }


(***************************************************************************)
(* State of one seeder and its single execute() run.                       *)
(***************************************************************************)
VARIABLES
  pc,               \* "new" (constructed), "stream" (in the for-of loop), "done"
  refsConfig,       \* this.refsConfig
  columnCounts,     \* schema: number of columns of each table
  autoId,           \* schema: tables whose id column is generated by the target
  tableStates,      \* Map<string, TableState>, in insertion order
  rowIndexByTable,  \* Map<string, number>
  sqliteDb,         \* the reference store handle: "null", "open", "closed"
  refDb,            \* rows of the reference store: table -> _rowIndex -> column -> TEXT
  cleanupCalls,     \* times cleanup() ran
  inserts,          \* db.insert(table).values(rows) calls so far, in order
  consumed,         \* chunks the for-of loop has taken from the generator,
                    \* each with the number of db.insert calls made before it
  error,            \* what execute() rejected with ("none" while it has not)
  errorLines,       \* lines of the unresolved-refs message
  frame             \* locals of the while loops, when they are run pass by pass

seederVars ==
  <<pc, refsConfig, columnCounts, autoId, tableStates, rowIndexByTable,
    sqliteDb, refDb, cleanupCalls, inserts, consumed, error, errorLines,
    frame>>

(***************************************************************************)
(* State of a process that makes seeders and awaits them: each then() of a *)
(* seeder starts an execute() of its own.                                  *)
(***************************************************************************)
VARIABLES
  seeders,          \* the seeder objects made so far, each with its executionId
  runs,             \* the execute() calls started so far
  files             \* the temp directory: path -> rows of the store file

processVars == <<seeders, runs, files>>

(***************************************************************************)
(* State of a generator object: the BaseGenerator chain it holds, and for  *)
(* a SqliteGenerator its refine config and its iteration.                  *)
(***************************************************************************)
VARIABLES
  generator,        \* the BaseGenerator (generateOptions.generator), or the
                    \* Generator objects of src/src/generator.ts
  out,              \* what the last generate(ctx) or resolve(baseCtx) call did
  config,           \* SqliteGenerator.config
  iteration,        \* the running [Symbol.iterator]() call
  yielded           \* the chunks it yielded, each column with its calls

generatorVars == <<generator, out, config, iteration, yielded>>

\* What the steps of one execute() leave alone.
outsideSeeder == <<processVars, generatorVars>>

\* What the steps of the process leave alone.
outsideProcess == <<seederVars, generatorVars>>

\* What the steps on a generator leave alone.
outsideGenerator == <<seederVars, processVars>>

vars == <<seederVars, processVars, generatorVars>>

NoGenerator == [kind |-> "none"]
NoCall == [kind |-> "none"]
NoIteration == [state |-> "none"]
NoConfig == [kind |-> "null"]

GeneratorAtRest ==
  /\ generator = NoGenerator
  /\ out = NoCall
  /\ config = NoConfig
  /\ iteration = NoIteration
  /\ yielded = <<>>

\* Faulty variant: the store is made whatever the refine config declares.
hasRefsAlways == TRUE

hasRefs == DOMAIN refsConfig # {}

HasTable(ts, t) == \E i \in 1..Len(ts) : ts[i].name = t

TableIndex(ts, t) == CHOOSE i \in 1..Len(ts) : ts[i].name = t

\* Faulty variant: the quotient is rounded up.
getBatchSizeRoundedUp(columnCount) ==
  (SQLITE_MAX_PARAMETERS + columnCount - 1) \div columnCount

\* Math.floor(SQLITE_MAX_PARAMETERS / columnCount), columnCount >= 1.
getBatchSizeForTable(columnCount) == SQLITE_MAX_PARAMETERS \div columnCount

NewTableState(t, columnCount) ==
  [name |-> t, batch |-> <<>>, queue |-> <<>>, seededCount |-> 0,
   rowIndices |-> <<>>, columnCount |-> columnCount,
   batchSize |-> getBatchSizeForTable(columnCount)]

extractRefs(chunk) ==
  SelectSeq([i \in 1..Len(ColumnOrder) |-> chunk[ColumnOrder[i]]],
            isColumnValueReference)

\* SELECT 1 FROM "<refTableName>" WHERE _rowIndex = ?
refExists(ref, db) ==
  /\ ref.refTableName \in DOMAIN db
  /\ ref.refRowIndex \in DOMAIN db[ref.refTableName]

resolveRef(ref, db) ==
  IF ~refExists(ref, db) THEN Undefined
  ELSE LET row == db[ref.refTableName][ref.refRowIndex]
       IN IF ref.refColumnName \notin DOMAIN row THEN Undefined
          ELSE ApplyTransform(ref.transformFn, parse(row[ref.refColumnName]))

\* Faulty variant: every chunk counts as eligible.
areAllRefsResolvedUnchecked(refs, db) == TRUE

areAllRefsResolved(refs, db) ==
  \A i \in 1..Len(refs) : refExists(refs[i], db)

\* areAllRefsResolved (lines 350 and 253): refExists prepares SELECT 1 FROM
\* "<refTableName>", which throws (no such table) when the store has no
\* table of that name; the loop gets there when the refs before it exist.
lookupThrows(refs, db) ==
  /\ hasRefs
  /\ \E k \in 1..Len(refs) :
       /\ refs[k].refTableName \notin DOMAIN db
       /\ \A j \in 1..(k - 1) : refExists(refs[j], db)

\* resolveChunk throws when a chunk holds a reference and there is no store.
resolveChunkThrows(chunk, open) ==
  ~open /\ \E c \in DOMAIN chunk : isColumnValueReference(chunk[c])

\* Faulty variant: a placeholder is passed on like a plain value.
resolveChunkKeepsPlaceholders(chunk, db) ==
  [c \in DOMAIN chunk |->
     IF isColumnValueReference(chunk[c]) THEN resolveRef(chunk[c], db)
     ELSE chunk[c]]

\* resolveChunk, lines 169-190.
resolveChunk(chunk, db) ==
  [c \in {k \in DOMAIN chunk : ~isGeneratedAsPlaceholder(chunk[k])} |->
     IF isColumnValueReference(chunk[c]) THEN resolveRef(chunk[c], db)
     ELSE chunk[c]]

(***************************************************************************)
(* The run's working state as the helpers of execute() pass it on:         *)
(* ts (tableStates), db (store rows), open (sqliteDb !== null), inserts,   *)
(* error (the exception in flight), failIn (the db.insert call, counted    *)
(* from here, that the target rejects; 0: none).                           *)
(***************************************************************************)
\* Faulty variant: the store row holds every column of the chunk.
recordRefsAllColumns(m, i) ==
  LET s == m.ts[i]
      t == s.name
      n == Len(s.batch)
      rowOf(r) ==
        LET k == CHOOSE j \in 1..n : s.rowIndices[j] = r
        IN [c \in DOMAIN s.batch[k] |-> stringify(s.batch[k][c])]
      done == {s.rowIndices[k] : k \in 1..n}
  IN IF ~m.open \/ t \notin DOMAIN refsConfig \/ refsConfig[t] = {} THEN m
     ELSE [m EXCEPT !.db[t] = [r \in (DOMAIN m.db[t]) \cup done |->
                                 IF r \in done THEN rowOf(r) ELSE m.db[t][r]]]

\* flush, lines 212-231: INSERT one store row per chunk of the batch, in
\* order; a stringify that throws, or an INSERT of a _rowIndex (the
\* table's PRIMARY KEY, line 102) that is already there, stops the loop
\* with the earlier rows kept.
recordRefs(m, i) ==
  LET s == m.ts[i]
      t == s.name
      n == Len(s.batch)
  IN IF ~m.open \/ t \notin DOMAIN refsConfig \/ refsConfig[t] = {} THEN m
     ELSE LET bad == {k \in 1..n :
                        \E c \in refsConfig[t] : StringifyThrows(s.batch[k][c])}
              taken == {k \in 1..n :
                          \/ s.rowIndices[k] \in DOMAIN m.db[t]
                          \/ \E j \in 1..(k - 1) :
                               s.rowIndices[j] = s.rowIndices[k]}
              fails == bad \cup taken
              stop == IF fails = {} THEN n + 1
                      ELSE CHOOSE k \in fails : \A j \in fails : k <= j
              done == {s.rowIndices[k] : k \in 1..(stop - 1)}
              rowOf(r) ==
                LET k == CHOOSE j \in 1..(stop - 1) : s.rowIndices[j] = r
                IN [c \in refsConfig[t] |-> stringify(s.batch[k][c])]
              table == [r \in (DOMAIN m.db[t]) \cup done |->
                          IF r \in done THEN rowOf(r) ELSE m.db[t][r]]
          IN [m EXCEPT !.db[t] = table,
                       !.error = IF fails = {} THEN "none"
                                 ELSE IF stop \in bad THEN "stringify"
                                 ELSE "constraint"]

\* Faulty variant: the flushed batch is counted but left in place.
clearBatchKeeps(m, i) ==
  [m EXCEPT !.ts[i].seededCount = @ + Len(m.ts[i].batch)]

\* flush, lines 233-235.
clearBatch(m, i) ==
  [m EXCEPT !.ts[i].seededCount = @ + Len(m.ts[i].batch),
            !.ts[i].batch = <<>>,
            !.ts[i].rowIndices = <<>>]

\* Faulty variant: a rejected db.insert is swallowed and the run goes on.
flushSwallowsRejection(m, i) ==
  LET s == m.ts[i] IN
  IF m.error # "none" \/ Len(s.batch) = 0 THEN m
  ELSE IF \E k \in 1..Len(s.batch) : resolveChunkThrows(s.batch[k], m.open)
  THEN [m EXCEPT !.error = "resolve"]
  ELSE LET resolvedBatch ==
             [k \in 1..Len(s.batch) |-> resolveChunk(s.batch[k], m.db)]
           call == [table |-> s.name, rows |-> resolvedBatch,
                    rowIndices |-> s.rowIndices, ok |-> m.failIn # 1]
           m1 == [m EXCEPT !.inserts = Append(@, call),
                           !.failIn = IF @ > 0 THEN @ - 1 ELSE 0]
           m2 == recordRefs(m1, i)
       IN IF m2.error # "none" THEN m2 ELSE clearBatch(m2, i)

\* Faulty variant: the store rows are written before db.insert is awaited.
flushRecordsFirst(m, i) ==
  LET s == m.ts[i] IN
  IF m.error # "none" \/ Len(s.batch) = 0 THEN m
  ELSE IF \E k \in 1..Len(s.batch) : resolveChunkThrows(s.batch[k], m.open)
  THEN [m EXCEPT !.error = "resolve"]
  ELSE LET resolvedBatch ==
             [k \in 1..Len(s.batch) |-> resolveChunk(s.batch[k], m.db)]
           call == [table |-> s.name, rows |-> resolvedBatch,
                    rowIndices |-> s.rowIndices, ok |-> m.failIn # 1]
           m1 == recordRefs(m, i)
           m2 == [m1 EXCEPT !.inserts = Append(@, call),
                            !.failIn = IF @ > 0 THEN @ - 1 ELSE 0]
       IN IF m1.error # "none" THEN m1
          ELSE IF ~call.ok THEN [m2 EXCEPT !.error = "insert"]
          ELSE clearBatch(m2, i)

flush(m, i) ==
  LET s == m.ts[i] IN
  IF m.error # "none" \/ Len(s.batch) = 0 THEN m
  ELSE IF \E k \in 1..Len(s.batch) : resolveChunkThrows(s.batch[k], m.open)
  THEN [m EXCEPT !.error = "resolve"]
  ELSE LET resolvedBatch ==
             [k \in 1..Len(s.batch) |-> resolveChunk(s.batch[k], m.db)]
           call == [table |-> s.name, rows |-> resolvedBatch,
                    rowIndices |-> s.rowIndices, ok |-> m.failIn # 1]
           m1 == [m EXCEPT !.inserts = Append(@, call),
                           !.failIn = IF @ > 0 THEN @ - 1 ELSE 0]
       IN IF ~call.ok THEN [m1 EXCEPT !.error = "insert"]
          ELSE LET m2 == recordRefs(m1, i)
               IN IF m2.error # "none" THEN m2 ELSE clearBatch(m2, i)

\* Faulty variant: a pass moves every queued entry to the batch, eligible or not.
DrainTableMovesAll(s, db) ==
  [s EXCEPT !.batch = @ \o [k \in 1..Len(s.queue) |-> s.queue[k].chunk],
            !.rowIndices = @ \o [k \in 1..Len(s.queue) |-> s.queue[k].rowIndex],
            !.queue = <<>>]

\* Faulty variant: a pass stops at a table's first entry that is still
\* blocked and leaves the entries behind it queued.
DrainTableUntilBlocked(s, db) ==
  LET ready(k) == areAllRefsResolved(s.queue[k].pendingRefs, db)
      n == IF \A k \in 1..Len(s.queue) : ready(k) THEN Len(s.queue)
           ELSE (CHOOSE k \in 1..Len(s.queue) :
                   ~ready(k) /\ \A j \in 1..(k - 1) : ready(j)) - 1
  IN [s EXCEPT !.batch = @ \o [k \in 1..n |-> s.queue[k].chunk],
               !.rowIndices = @ \o [k \in 1..n |-> s.queue[k].rowIndex],
               !.queue = [k \in 1..(Len(s.queue) - n) |-> s.queue[k + n]]]

\* Faulty variant: a pass leaves every queued entry where it is.
DrainTableMovesNone(s, db) == s

\* Faulty variant: a moved entry is numbered by its place in the order of
\* flushing, not by the rowIndex it was queued with.
DrainTableRenumbers(s, db) ==
  LET ready(q) == areAllRefsResolved(q.pendingRefs, db)
      blocked(q) == ~ready(q)
      moved == SelectSeq(s.queue, ready)
  IN [s EXCEPT !.batch = @ \o [k \in 1..Len(moved) |-> moved[k].chunk],
               !.rowIndices = @ \o [k \in 1..Len(moved) |->
                                      s.seededCount + Len(s.batch) + k - 1],
               !.queue = SelectSeq(s.queue, blocked)]

\* One table's turn in a pass of drainAllQueues (lines 249-263).
DrainTable(s, db) ==
  LET ready(q) == areAllRefsResolved(q.pendingRefs, db)
      blocked(q) == ~ready(q)
      moved == SelectSeq(s.queue, ready)
  IN [s EXCEPT !.batch = @ \o [k \in 1..Len(moved) |-> moved[k].chunk],
               !.rowIndices = @ \o [k \in 1..Len(moved) |-> moved[k].rowIndex],
               !.queue = SelectSeq(s.queue, blocked)]

DrainPass(ts, db) == [i \in 1..Len(ts) |-> DrainTable(ts[i], db)]

\* while (madeProgress): a pass that moved an entry is followed by another.
RECURSIVE DrainLoop(_, _)
DrainLoop(ts, db) ==
  LET next == DrainPass(ts, db)
  IN IF next # ts THEN DrainLoop(next, db) ELSE ts

\* Faulty variant: the drain returns as soon as it has moved one entry.
drainAllQueuesFirstOnly(m) ==
  LET ready(i, k) == areAllRefsResolved(m.ts[i].queue[k].pendingRefs, m.db)
      cand == {i \in 1..Len(m.ts) : \E k \in 1..Len(m.ts[i].queue) : ready(i, k)}
  IN IF cand = {} THEN m
     ELSE LET i == CHOOSE x \in cand : \A y \in cand : x <= y
              q == m.ts[i].queue
              k == CHOOSE x \in 1..Len(q) :
                     ready(i, x) /\ \A y \in 1..(x - 1) : ~ready(i, y)
          IN [m EXCEPT !.ts[i].batch = Append(@, q[k].chunk),
                       !.ts[i].rowIndices = Append(@, q[k].rowIndex),
                       !.ts[i].queue = [j \in 1..(Len(q) - 1) |->
                                          IF j < k THEN q[j] ELSE q[j + 1]]]

\* The entries of a table's queue whose lookup throws.
ThrowsIn(s, db) ==
  {k \in 1..Len(s.queue) : lookupThrows(s.queue[k].pendingRefs, db)}

\* drainAllQueues, line 253: the store does not change during a drain, so
\* a lookup that throws does so in the first pass.
DrainThrows(ts, db) == \E i \in 1..Len(ts) : ThrowsIn(ts[i], db) # {}

\* The table states the throw leaves: the tables before are drained, the
\* table at hand has the entries before the throw in its batch and none
\* taken off its queue (line 262 is not reached).
DrainThrown(ts, db) ==
  LET at == {i \in 1..Len(ts) : ThrowsIn(ts[i], db) # {}}
      i0 == CHOOSE i \in at : \A j \in at : i <= j
      s == ts[i0]
      k0 == CHOOSE k \in ThrowsIn(s, db) : \A j \in ThrowsIn(s, db) : k <= j
      ready(q) == areAllRefsResolved(q.pendingRefs, db)
      moved == SelectSeq(SubSeq(s.queue, 1, k0 - 1), ready)
  IN [i \in 1..Len(ts) |->
        IF i < i0 THEN DrainTable(ts[i], db)
        ELSE IF i = i0
        THEN [s EXCEPT !.batch = @ \o [k \in 1..Len(moved) |-> moved[k].chunk],
                       !.rowIndices = @ \o [k \in 1..Len(moved) |->
                                              moved[k].rowIndex]]
        ELSE ts[i]]

drainAllQueues(m) ==
  IF DrainThrows(m.ts, m.db)
  THEN [m EXCEPT !.ts = DrainThrown(m.ts, m.db), !.error = "lookup"]
  ELSE [m EXCEPT !.ts = DrainLoop(m.ts, m.db)]

\* drainAllQueues' return value, anyProgress.
anyProgress(before, after) == after.ts # before.ts

RECURSIVE FlushAllFrom(_, _)
FlushAllFrom(m, i) ==
  IF m.error # "none" \/ i > Len(m.ts) THEN m
  ELSE IF Len(m.ts[i].batch) >= m.ts[i].batchSize
  THEN LET f == flush(m, i)
       IN FlushAllFrom(IF f.error = "none" /\ f.open THEN drainAllQueues(f)
                       ELSE f, i + 1)
  ELSE FlushAllFrom(m, i + 1)

flushAllQueuesAfterDrain(m) == FlushAllFrom(m, 1)

\* for (const [tableName, tableState] of tableStates) await this.flush(...)
RECURSIVE FlushEachFrom(_, _)
FlushEachFrom(m, i) ==
  IF m.error # "none" \/ i > Len(m.ts) THEN m
  ELSE FlushEachFrom(flush(m, i), i + 1)

\* execute, lines 381-389: the final drain loop.
RECURSIVE FinalDrainLoop(_)
\* One pass of the loop: m before the drain, d after it, f after the
\* flushes of lines 385-387.
FinalDrainFlushed(m, d, f) ==
  IF f.error # "none" THEN f
  ELSE IF anyProgress(m, d) THEN FinalDrainLoop(f)
  ELSE f

FinalDrainPass(m, d) == FinalDrainFlushed(m, d, FlushEachFrom(d, 1))

FinalDrainLoop(m) == FinalDrainPass(m, drainAllQueues(m))

RECURSIVE Flatten(_)
Flatten(ss) == IF ss = <<>> THEN <<>> ELSE Head(ss) \o Flatten(Tail(ss))

UnresolvedLinesOf(s) ==
  Flatten([k \in 1..Len(s.queue) |->
    [j \in 1..Len(s.queue[k].pendingRefs) |->
      [table |-> s.name,
       rowIndex |-> s.queue[k].rowIndex,
       refTableName |-> s.queue[k].pendingRefs[j].refTableName,
       refRowIndex |-> s.queue[k].pendingRefs[j].refRowIndex,
       refColumnName |-> s.queue[k].pendingRefs[j].refColumnName]]])

\* Faulty variant: only the first table found with a non-empty queue is reported.
getUnresolvedRefsErrorFirstTable(ts) ==
  LET stuck == {i \in 1..Len(ts) : Len(ts[i].queue) > 0}
  IN IF stuck = {} THEN <<>>
     ELSE UnresolvedLinesOf(ts[CHOOSE i \in stuck : \A j \in stuck : i <= j])

\* The lines of getUnresolvedRefsError's message, in order.
getUnresolvedRefsError(ts) ==
  Flatten([i \in 1..Len(ts) |-> UnresolvedLinesOf(ts[i])])

(***************************************************************************)
(* The generator's stream.  A chunk is the row a table's column generators *)
(* produced for one index: id is a plain value or, in a table whose id is  *)
(* generated by the target, the placeholder; fk and fk2 are plain or are   *)
(* references made with ctx.ref.<table>[<row>].<column>(transformFn).      *)
(***************************************************************************)
RefTargets == {<<"books", 0>>, <<"notes", 0>>, <<"notes", 1>>}

IdBase(t) == IF t = "books" THEN 10 ELSE 20

\* References name a column the refine config declares for the table.
RefColumn(t) ==
  IF t \in DOMAIN refsConfig THEN CHOOSE c \in refsConfig[t] : TRUE ELSE "id"

RefTo(t, r) ==
  columnValueReference(t, r, RefColumn(t), IF r = 0 THEN "identity" ELSE "inc")

ChunkId(t, index) ==
  IF t \in autoId THEN generatedAsPlaceholder ELSE Plain(IdBase(t) + index)

Chunks(t, index) ==
  {[id |-> ChunkId(t, index), fk |-> Plain(7), fk2 |-> Plain(8)]}
  \cup {[id |-> ChunkId(t, index), fk |-> RefTo(x[1], x[2]), fk2 |-> Plain(8)] :
          x \in RefTargets}
  \cup {[id |-> ChunkId(t, index), fk |-> RefTo("books", 0),
         fk2 |-> RefTo("notes", 1)]}

(***************************************************************************)
(* execute()                                                               *)
(***************************************************************************)
\* No while loop is running.
NoFrame ==
  [ret |-> "none", i |-> 0, madeProgress |-> FALSE, anyProgress |-> FALSE]

Init ==
  /\ pc = "new"
  /\ refsConfig \in RefsConfigs
  /\ columnCounts \in [Tables -> ColumnCounts]
  /\ autoId \in {{}, {"books"}}
  /\ tableStates = <<>>
  /\ rowIndexByTable = [t \in {} |-> 0]
  /\ sqliteDb = "null"
  /\ refDb = [t \in {} |-> 0]
  /\ cleanupCalls = 0
  /\ inserts = <<>>
  /\ consumed = <<>>
  /\ error = "none"
  /\ errorLines = <<>>
  /\ frame = NoFrame
  /\ seeders = <<>>
  /\ runs = <<>>
  /\ files = [p \in {} |-> {}]
  /\ GeneratorAtRest

Working(failIn) ==
  [ts |-> tableStates, db |-> refDb, open |-> sqliteDb = "open",
   inserts |-> inserts, error |-> "none", failIn |-> failIn]

\* What execute() leaves behind: on an exception the finally block runs
\* cleanup?.() and the promise rejects; otherwise the loop goes on.
SettleTo(m, finished, goOn) ==
  /\ tableStates' = m.ts
  /\ refDb' = m.db
  /\ inserts' = m.inserts
  /\ error' = m.error
  /\ IF m.error # "none" \/ finished
     THEN /\ pc' = "done"
          /\ sqliteDb' = IF sqliteDb = "null" THEN "null" ELSE "closed"
          /\ cleanupCalls' = IF sqliteDb = "null" THEN cleanupCalls
                             ELSE cleanupCalls + 1
     ELSE /\ pc' = goOn
          /\ UNCHANGED <<sqliteDb, cleanupCalls>>

Settle(m, finished) == SettleTo(m, finished, pc)

\* execute, lines 303-312: createRefDatabase opened the temp file and
\* created a store table for every table of refsConfig.
StartExecute ==
  /\ pc = "new"
  /\ pc' = "stream"
  /\ sqliteDb' = IF hasRefs THEN "open" ELSE "null"
  /\ refDb' = [t \in DOMAIN refsConfig |-> [r \in {} |-> 0]]
  /\ UNCHANGED <<refsConfig, columnCounts, autoId, tableStates,
                 rowIndexByTable, cleanupCalls, inserts, consumed, error,
                 errorLines, frame>>
  /\ UNCHANGED outsideSeeder

\* createRefDatabase, lines 93-107: new Database(tempPath) succeeded and a
\* db.exec of the CREATE statements threw; the call is outside the try.
CreateRefDatabaseThrows ==
  /\ pc = "new"
  /\ hasRefs
  /\ pc' = "done"
  /\ sqliteDb' = "open"
  /\ error' = "create"
  /\ UNCHANGED <<refsConfig, columnCounts, autoId, tableStates,
                 rowIndexByTable, refDb, cleanupCalls, inserts, consumed,
                 errorLines, frame>>
  /\ UNCHANGED outsideSeeder

RowIndexOf(t) ==
  IF t \in DOMAIN rowIndexByTable THEN rowIndexByTable[t] ELSE 0

\* Faulty variant: with a store, only a lookup of the store makes a chunk
\* eligible on arrival, and the lookup is skipped for a chunk without refs.
goesToBatchOnlyAfterLookup(refs, db) ==
  ~hasRefs \/ (Len(refs) > 0 /\ areAllRefsResolved(refs, db))

\* execute, lines 346-361: the chunk goes to the batch (TRUE) or the queue.
goesToBatch(refs, db) ==
  ~hasRefs \/ Len(refs) = 0 \/ areAllRefsResolved(refs, db)

\* Faulty variant: an eligible chunk is put at the head of the batch.
ArriveWorkAtHead(t, chunkData, failIn) ==
  LET m0 == Working(failIn)
      ts0 == IF HasTable(m0.ts, t) THEN m0.ts
             ELSE Append(m0.ts, NewTableState(t, columnCounts[t]))
      i == TableIndex(ts0, t)
      rowIndex == RowIndexOf(t)
      refs == extractRefs(chunkData)
      toBatch == goesToBatch(refs, m0.db)
      ts1 == IF toBatch
             THEN [ts0 EXCEPT ![i].batch = <<chunkData>> \o @,
                              ![i].rowIndices = <<rowIndex>> \o @]
             ELSE [ts0 EXCEPT ![i].queue =
                     Append(@, [chunk |-> chunkData, rowIndex |-> rowIndex,
                                pendingRefs |-> refs])]
  IN IF lookupThrows(refs, m0.db)
     THEN [m0 EXCEPT !.ts = ts0, !.error = "lookup"]
     ELSE [m0 EXCEPT !.ts = ts1]

\* execute, lines 319-361: the chunk is taken and put in the batch or the
\* queue of its table.
ArriveWork(t, chunkData, failIn) ==
  LET m0 == Working(failIn)
      ts0 == IF HasTable(m0.ts, t) THEN m0.ts
             ELSE Append(m0.ts, NewTableState(t, columnCounts[t]))
      i == TableIndex(ts0, t)
      rowIndex == RowIndexOf(t)
      refs == extractRefs(chunkData)
      toBatch == goesToBatch(refs, m0.db)
      ts1 == IF toBatch
             THEN [ts0 EXCEPT ![i].batch = Append(@, chunkData),
                              ![i].rowIndices = Append(@, rowIndex)]
             ELSE [ts0 EXCEPT ![i].queue =
                     Append(@, [chunk |-> chunkData, rowIndex |-> rowIndex,
                                pendingRefs |-> refs])]
  IN IF lookupThrows(refs, m0.db)
     THEN [m0 EXCEPT !.ts = ts0, !.error = "lookup"]
     ELSE [m0 EXCEPT !.ts = ts1]

\* execute, line 364, which a throw of the lookup does not reach: the
\* batch of the chunk's table is full.
BatchFull(m, t) ==
  LET s == m.ts[TableIndex(m.ts, t)]
  IN m.error = "none" /\ Len(s.batch) >= s.batchSize

\* execute, lines 368-371: the drain and the flushes that follow a flush.
AfterFlush(f) ==
  IF f.error = "none" /\ hasRefs /\ f.open
  THEN flushAllQueuesAfterDrain(drainAllQueues(f))
  ELSE f

\* One iteration of the for-of loop, lines 319-373, on the working state.
ConsumeWork(t, chunkData, failIn) ==
  LET m1 == ArriveWork(t, chunkData, failIn)
  IN IF BatchFull(m1, t)
     THEN AfterFlush(flush(m1, TableIndex(m1.ts, t)))
     ELSE m1

ConsumeChunk(t, chunkData, failIn) ==
  /\ pc = "stream"
  /\ rowIndexByTable' =
       [x \in DOMAIN rowIndexByTable \cup {t} |->
          IF x = t THEN RowIndexOf(t) + 1 ELSE rowIndexByTable[x]]
  /\ consumed' = Append(consumed, [table |-> t, rowIndex |-> RowIndexOf(t),
                                   chunk |-> chunkData, at |-> Len(inserts)])
  /\ Settle(ConsumeWork(t, chunkData, failIn), FALSE)
  /\ UNCHANGED <<refsConfig, columnCounts, autoId, errorLines, frame>>
  /\ UNCHANGED outsideSeeder

\* Faulty variant: the finalizer without its check for stuck items.
\* execute, lines 381-389: the final drain, run when there is a store and
\* the flushes of lines 376-378 did not throw.
FinalDrain(m1) ==
  IF m1.error = "none" /\ hasRefs /\ m1.open
  THEN FinalDrainLoop(m1) ELSE m1

\* Faulty variant: the run ends without a look at the queues.
StuckCheckSkipped(m2) == m2

\* execute, lines 391-395: items left in a queue make the run fail.
StuckCheck(m2) ==
  IF m2.error = "none" /\ \E i \in 1..Len(m2.ts) : Len(m2.ts[i].queue) > 0
  THEN [m2 EXCEPT !.error = "unresolved"] ELSE m2

FinalizeWorkNoStuckCheck(failIn) ==
  FinalDrain(FlushEachFrom(Working(failIn), 1))

\* The generator is exhausted: lines 375-396, on the working state.
FinalizeWork(failIn) ==
  StuckCheck(FinalDrain(FlushEachFrom(Working(failIn), 1)))

SettleFinal(m) ==
  /\ Settle(m, TRUE)
  /\ errorLines' = IF m.error = "unresolved"
                   THEN getUnresolvedRefsError(m.ts) ELSE errorLines

Finalize(failIn) ==
  /\ pc = "stream"
  /\ SettleFinal(FinalizeWork(failIn))
  /\ UNCHANGED <<refsConfig, columnCounts, autoId, rowIndexByTable, consumed,
                 frame>>
  /\ UNCHANGED outsideSeeder

\* The target may reject any one of the db.insert calls a step makes.
InsertCalls(m) == Len(m.inserts) - Len(inserts)

NextChunk ==
  /\ pc = "stream"
  /\ Len(consumed) < MaxChunks
  /\ \E t \in Tables : \E chunkData \in Chunks(t, RowIndexOf(t)) :
       \E failIn \in 0..InsertCalls(ConsumeWork(t, chunkData, 0)) :
         ConsumeChunk(t, chunkData, failIn)

StreamEnd ==
  /\ pc = "stream"
  /\ \E failIn \in 0..InsertCalls(FinalizeWork(0)) : Finalize(failIn)

Next ==
  \/ StartExecute
  \/ CreateRefDatabaseThrows
  \/ NextChunk
  \/ StreamEnd

Spec == Init /\ [][Next]_vars


(***************************************************************************)
(* execute() with its while loops run one pass at a time: pc is also      *)
(* "drain" (inside drainAllQueues), "cascade" (the for loop of            *)
(* flushAllQueuesAfterDrain), "flushAll" (a for loop that flushes every   *)
(* table) and "check" (the check for stuck items).  frame holds the       *)
(* loops' locals: ret (where the loop is run from), i (the table a for    *)
(* loop is at), madeProgress, anyProgress.                                *)
(***************************************************************************)
EnterDrain(ret, i) ==
  [ret |-> ret, i |-> i, madeProgress |-> TRUE, anyProgress |-> FALSE]

\* Faulty variant: madeProgress is not reset at the top of the while loop.
passMadeProgressNotReset(before, after) == TRUE

\* drainAllQueues, lines 246-256: madeProgress after one pass of the loop.
passMadeProgress(before, after) == after # before

\* Lines 319-369: a chunk is taken; a full batch is flushed and
\* drainAllQueues is entered.
TakeChunk(t, chunkData, failIn) ==
  /\ pc = "stream"
  /\ Len(consumed) < MaxChunks
  /\ chunkData \in Chunks(t, RowIndexOf(t))
  /\ rowIndexByTable' =
       [x \in DOMAIN rowIndexByTable \cup {t} |->
          IF x = t THEN RowIndexOf(t) + 1 ELSE rowIndexByTable[x]]
  /\ consumed' = Append(consumed, [table |-> t, rowIndex |-> RowIndexOf(t),
                                   chunk |-> chunkData, at |-> Len(inserts)])
  /\ LET a == ArriveWork(t, chunkData, failIn)
         full == BatchFull(a, t)
         f == IF full THEN flush(a, TableIndex(a.ts, t)) ELSE a
         drains == full /\ f.error = "none" /\ hasRefs /\ f.open
     IN /\ SettleTo(f, FALSE, IF drains THEN "drain" ELSE "stream")
        /\ frame' = IF drains THEN EnterDrain("cascade", 1) ELSE NoFrame
  /\ UNCHANGED <<refsConfig, columnCounts, autoId, errorLines>>
  /\ UNCHANGED outsideSeeder

StepChunk ==
  /\ pc = "stream"
  /\ Len(consumed) < MaxChunks
  /\ \E t \in Tables : \E chunkData \in Chunks(t, RowIndexOf(t)) :
       \E failIn \in 0..1 : TakeChunk(t, chunkData, failIn)

\* drainAllQueues, lines 245-265: one pass of the while loop.
StepDrainPass ==
  /\ pc = "drain"
  /\ frame.madeProgress
  /\ IF DrainThrows(tableStates, refDb)
     THEN /\ SettleTo([Working(0) EXCEPT
                         !.ts = DrainThrown(tableStates, refDb),
                         !.error = "lookup"], FALSE, "done")
          /\ frame' = NoFrame
     ELSE /\ \E after \in {DrainPass(tableStates, refDb)} :
               LET moved == passMadeProgress(tableStates, after)
               IN /\ tableStates' = after
                  /\ frame' = [frame EXCEPT !.madeProgress = moved,
                                            !.anyProgress = @ \/ moved]
          /\ UNCHANGED <<pc, sqliteDb, refDb, cleanupCalls, inserts, error>>
  /\ UNCHANGED <<refsConfig, columnCounts, autoId, rowIndexByTable, consumed,
                 errorLines>>
  /\ UNCHANGED outsideSeeder

\* drainAllQueues, line 267: the while loop has ended and anyProgress is
\* returned, to flushAllQueuesAfterDrain or to the final drain loop.
StepDrainReturn ==
  /\ pc = "drain"
  /\ ~frame.madeProgress
  /\ IF frame.ret = "cascade"
     THEN pc' = "cascade" /\ frame' = frame
     ELSE pc' = "flushAll" /\ frame' = [frame EXCEPT !.i = 1]
  /\ UNCHANGED <<refsConfig, columnCounts, autoId, tableStates,
                 rowIndexByTable, sqliteDb, refDb, cleanupCalls, inserts,
                 consumed, error, errorLines>>
  /\ UNCHANGED outsideSeeder

\* flushAllQueuesAfterDrain, lines 274-282: the for loop at table frame.i.
Cascade(failIn) ==
  /\ pc = "cascade"
  /\ IF frame.i > Len(tableStates)
     THEN /\ pc' = "stream"
          /\ frame' = NoFrame
          /\ UNCHANGED <<tableStates, sqliteDb, refDb, cleanupCalls, inserts,
                         error>>
     ELSE IF Len(tableStates[frame.i].batch) >= tableStates[frame.i].batchSize
     THEN \E f \in {flush(Working(failIn), frame.i)} :
            /\ SettleTo(f, FALSE, "drain")
            /\ frame' = IF f.error = "none"
                         THEN EnterDrain("cascade", frame.i + 1) ELSE NoFrame
     ELSE /\ frame' = [frame EXCEPT !.i = @ + 1]
          /\ UNCHANGED <<pc, tableStates, sqliteDb, refDb, cleanupCalls,
                         inserts, error>>
  /\ UNCHANGED <<refsConfig, columnCounts, autoId, rowIndexByTable, consumed,
                 errorLines>>
  /\ UNCHANGED outsideSeeder

StepCascade ==
  /\ pc = "cascade"
  /\ \E failIn \in 0..1 : Cascade(failIn)

\* Line 376: the generator is exhausted.
StepStreamEnd ==
  /\ pc = "stream"
  /\ pc' = "flushAll"
  /\ frame' = [ret |-> "first", i |-> 1, madeProgress |-> FALSE,
               anyProgress |-> FALSE]
  /\ UNCHANGED <<refsConfig, columnCounts, autoId, tableStates,
                 rowIndexByTable, sqliteDb, refDb, cleanupCalls, inserts,
                 consumed, error, errorLines>>
  /\ UNCHANGED outsideSeeder

\* Faulty variant: the finalizer flushes only the batches that are full.
FlushEachOnlyFull(failIn) ==
  /\ pc = "flushAll"
  /\ IF /\ frame.i <= Len(tableStates)
        /\ Len(tableStates[frame.i].batch) < tableStates[frame.i].batchSize
     THEN /\ frame' = [frame EXCEPT !.i = @ + 1]
          /\ UNCHANGED <<pc, tableStates, sqliteDb, refDb, cleanupCalls,
                         inserts, error>>
     ELSE IF frame.i <= Len(tableStates)
     THEN \E f \in {flush(Working(failIn), frame.i)} :
            /\ SettleTo(f, FALSE, "flushAll")
            /\ frame' = IF f.error = "none"
                         THEN [frame EXCEPT !.i = @ + 1] ELSE NoFrame
     ELSE LET again == IF frame.ret = "first"
                       THEN hasRefs /\ sqliteDb = "open"
                       ELSE frame.anyProgress
          IN /\ pc' = IF again THEN "drain" ELSE "check"
             /\ frame' = IF again THEN EnterDrain("loop", 0) ELSE NoFrame
             /\ UNCHANGED <<tableStates, sqliteDb, refDb, cleanupCalls,
                            inserts, error>>
  /\ UNCHANGED <<refsConfig, columnCounts, autoId, rowIndexByTable, consumed,
                 errorLines>>
  /\ UNCHANGED outsideSeeder

\* Lines 376-378 (frame.ret = "first") and 385-387 (frame.ret = "loop"):
\* the for loop that flushes every table, at table frame.i; at its end,
\* lines 381-384: the final drain loop is entered, or gone round again
\* while drainAllQueues returned true.
FlushEach(failIn) ==
  /\ pc = "flushAll"
  /\ IF frame.i <= Len(tableStates)
     THEN \E f \in {flush(Working(failIn), frame.i)} :
            /\ SettleTo(f, FALSE, "flushAll")
            /\ frame' = IF f.error = "none"
                         THEN [frame EXCEPT !.i = @ + 1] ELSE NoFrame
     ELSE LET again == IF frame.ret = "first"
                       THEN hasRefs /\ sqliteDb = "open"
                       ELSE frame.anyProgress
          IN /\ pc' = IF again THEN "drain" ELSE "check"
             /\ frame' = IF again THEN EnterDrain("loop", 0) ELSE NoFrame
             /\ UNCHANGED <<tableStates, sqliteDb, refDb, cleanupCalls,
                            inserts, error>>
  /\ UNCHANGED <<refsConfig, columnCounts, autoId, rowIndexByTable, consumed,
                 errorLines>>
  /\ UNCHANGED outsideSeeder

StepFlushEach ==
  /\ pc = "flushAll"
  /\ \E failIn \in 0..1 : FlushEach(failIn)

\* Lines 391-399: the check for stuck items, and the finally block.
StepCheck ==
  /\ pc = "check"
  /\ SettleFinal(StuckCheck(Working(0)))
  /\ UNCHANGED <<refsConfig, columnCounts, autoId, rowIndexByTable, consumed,
                 frame>>
  /\ UNCHANGED outsideSeeder

NextSteps ==
  \/ StartExecute
  \/ CreateRefDatabaseThrows
  \/ StepChunk
  \/ StepDrainPass
  \/ StepDrainReturn
  \/ StepCascade
  \/ StepStreamEnd
  \/ StepFlushEach
  \/ StepCheck

\* The single worker runs every step of execute() that is next; the
\* generator may be exhausted at any point of the stream.
SpecSteps ==
  /\ Init /\ [][NextSteps]_vars
  /\ WF_vars(StartExecute)
  /\ WF_vars(StepDrainPass)
  /\ WF_vars(StepDrainReturn)
  /\ WF_vars(StepCascade)
  /\ WF_vars(StepStreamEnd)
  /\ WF_vars(StepFlushEach)
  /\ WF_vars(StepCheck)


(***************************************************************************)
(* execute() on streams whose referenceable column books.id holds values   *)
(* of every kind the store has to keep: the generator's column functions   *)
(* may return any value (generate.ts:198).                                 *)
(***************************************************************************)
\* Longest stream of these runs.
MaxValueChunks == 2

SupportedValues ==
  { Plain(0), Plain(12), Plain(-3),
    Decimal(1, 5), Decimal(0, 1),
    Str("12"), Str(toISOString(0)),
    Null, Undefined,
    BigIntOf("12"), BigIntOf("18446744073709551616"),
    DateOf(0), DateOf(1000),
    ArrayOf(<<Plain(12), BigIntOf("12"), Plain(12)>>),
    ArrayOf(<<Undefined, Null>>),
    ArrayOf(<<DateOf(0), ArrayOf(<<Str("12")>>)>>),
    ObjectOf(<<[key |-> "at", value |-> DateOf(1000)],
               [key |-> "n", value |-> BigIntOf("12")]>>),
    ObjectOf(<<[key |-> "list", value |-> ArrayOf(<<Decimal(1, 5), Null>>)]>>) }

\* Chunks of table t for row index: the id of books' first row is any
\* supported value; fk is plain or ctx.ref.<table>[0].id((v) => v).
ValueChunks(t, index) ==
  {[id |-> id, fk |-> fk, fk2 |-> Plain(8)] :
     id \in (IF t = "books" /\ index = 0 THEN SupportedValues
             ELSE {Plain(IdBase(t) + index)}),
     fk \in {Plain(7), RefTo("books", 0), RefTo("notes", 0)}}

InitValues ==
  /\ Init
  /\ refsConfig = [t \in Tables |-> {"id"}]
  /\ autoId = {}

NextValueChunk ==
  /\ pc = "stream"
  /\ Len(consumed) < MaxValueChunks
  /\ \E t \in Tables : \E chunkData \in ValueChunks(t, RowIndexOf(t)) :
       ConsumeChunk(t, chunkData, 0)

NextValues ==
  \/ StartExecute
  \/ NextValueChunk
  \/ StreamEnd

SpecValues == InitValues /\ [][NextValues]_vars



(***************************************************************************)
(* execute() on tables of any width: the first chunk of a table has from   *)
(* one column up to more columns than one statement has parameters.  The   *)
(* chunks hold plain values and the seeder has no refs.                    *)
(***************************************************************************)
WideColumnCounts == {1, 2, 333, 334, 499, 500, 999, 1000, 1998, 3000}

InitCeiling ==
  /\ pc = "new"
  /\ refsConfig = NoRefs
  /\ columnCounts \in [Tables -> WideColumnCounts]
  /\ autoId = {}
  /\ tableStates = <<>>
  /\ rowIndexByTable = [t \in {} |-> 0]
  /\ sqliteDb = "null"
  /\ refDb = [t \in {} |-> 0]
  /\ cleanupCalls = 0
  /\ inserts = <<>>
  /\ consumed = <<>>
  /\ error = "none"
  /\ errorLines = <<>>
  /\ frame = NoFrame
  /\ seeders = <<>>
  /\ runs = <<>>
  /\ files = [p \in {} |-> {}]
  /\ GeneratorAtRest

\* A chunk whose columns hold plain values.
PlainChunk(t, index) ==
  [id |-> ChunkId(t, index), fk |-> Plain(7), fk2 |-> Plain(8)]

NextPlainChunk ==
  /\ pc = "stream"
  /\ Len(consumed) < MaxChunks
  /\ \E t \in Tables : ConsumeChunk(t, PlainChunk(t, RowIndexOf(t)), 0)

NextCeiling ==
  \/ StartExecute
  \/ NextPlainChunk
  \/ StreamEnd

SpecCeiling == InitCeiling /\ [][NextCeiling]_vars


(***************************************************************************)
(* A process that makes seeders with seed(db, generator) and awaits them.  *)
(* The executionId is a field initialised when the seeder is constructed   *)
(* (seed.ts:51, part_002:46); then() starts execute(), which opens the     *)
(* store file at tempPath (createRefDatabase / createRefStore); flush      *)
(* inserts rows into it; cleanup closes it and unlinks the path.  Every    *)
(* seeder here has refs, so that every run has a store.                    *)
(***************************************************************************)
MaxSeeders == 2

MaxRuns == 3

\* Rows a run records in its store.
MaxRows == 2

\* Values randomUUID() may return; it does not return a value twice.
UUIDs == 1..3

\* join(tmpdir(), `drizzle-seeder-${this.executionId}.db`)
tempPath(executionId) == <<"tmpdir", "drizzle-seeder-", executionId, ".db">>

\* The variables of a single execute() while the process is looked at.
SeederAtRest ==
  /\ pc = "new"
  /\ refsConfig = NoRefs
  /\ columnCounts = [t \in Tables |-> SQLITE_MAX_PARAMETERS]
  /\ autoId = {}
  /\ tableStates = <<>>
  /\ rowIndexByTable = [t \in {} |-> 0]
  /\ sqliteDb = "null"
  /\ refDb = [t \in {} |-> 0]
  /\ cleanupCalls = 0
  /\ inserts = <<>>
  /\ consumed = <<>>
  /\ error = "none"
  /\ errorLines = <<>>
  /\ frame = NoFrame

InitProcess ==
  /\ SeederAtRest
  /\ GeneratorAtRest
  /\ seeders = <<>>
  /\ runs = <<>>
  /\ files = [p \in {} |-> {}]

\* seed(db, generator): new SqliteSeeder(...), executionId = randomUUID().
NewSeeder ==
  /\ Len(seeders) < MaxSeeders
  /\ \E u \in UUIDs \ {seeders[i].executionId : i \in 1..Len(seeders)} :
       seeders' = Append(seeders, [executionId |-> u])
  /\ UNCHANGED <<runs, files>>
  /\ UNCHANGED outsideProcess

\* seeder.then(...): execute() runs up to its first await; new
\* Database(tempPath) opens the file, creating it when it is not there.
Then(i) ==
  /\ Len(runs) < MaxRuns
  /\ LET path == tempPath(seeders[i].executionId)
     IN /\ runs' = Append(runs, [seeder |-> i, tempPath |-> path,
                                 state |-> "running", rowIndex |-> 0])
        /\ files' = [p \in DOMAIN files \cup {path} |->
                       IF p \in DOMAIN files THEN files[p] ELSE {}]
  /\ UNCHANGED seeders
  /\ UNCHANGED outsideProcess

StartRun == \E i \in 1..Len(seeders) : Then(i)

\* flush, lines 218-227, in run r: INSERT INTO "<table>" (_rowIndex, ...).
\* _rowIndex is the primary key: a row that is already there makes the
\* INSERT throw, and execute() ends through its finally block.
RecordRow(r) ==
  /\ runs[r].state = "running"
  /\ runs[r].rowIndex < MaxRows
  /\ LET path == runs[r].tempPath
         stored == IF path \in DOMAIN files THEN files[path] ELSE {}
         clash == \E row \in stored : row.rowIndex = runs[r].rowIndex
     IN IF clash
        THEN /\ runs' = [runs EXCEPT ![r].state = "failed"]
             /\ files' = [p \in DOMAIN files \ {path} |-> files[p]]
        ELSE /\ runs' = [runs EXCEPT ![r].rowIndex = @ + 1]
             /\ files' = IF path \in DOMAIN files
                          THEN [files EXCEPT ![path] =
                                  @ \cup {[rowIndex |-> runs[r].rowIndex,
                                           writer |-> r]}]
                          ELSE files
  /\ UNCHANGED seeders
  /\ UNCHANGED outsideProcess

Record == \E r \in 1..Len(runs) : RecordRow(r)

\* The finally block of run r: cleanup() closes the store and unlinks
\* tempPath (an error of unlinkSync is swallowed).
Cleanup(r) ==
  /\ runs[r].state = "running"
  /\ runs' = [runs EXCEPT ![r].state = "done"]
  /\ files' = [p \in DOMAIN files \ {runs[r].tempPath} |-> files[p]]
  /\ UNCHANGED seeders
  /\ UNCHANGED outsideProcess

Finish == \E r \in 1..Len(runs) : Cleanup(r)

NextProcess ==
  \/ NewSeeder
  \/ StartRun
  \/ Record
  \/ Finish

SpecProcess == InitProcess /\ [][NextProcess]_vars


(***************************************************************************)
(* Generators (src/src/generators).  A generator is a FunctionalGenerator  *)
(* around a user function, a ChainedGenerator (base, next), or one of the  *)
(* library's layers.  generate(ctx) is followed call by call: its result   *)
(* holds whether it threw, the value returned (the message when it threw), *)
(* the calls made in the order they started, each with what it returned,   *)
(* and env, the state the calls share: faker's seeded stream and the       *)
(* position in it, and the values ctx.duplicateChecker has seen.  ctx.super*)
(* is the function the caller supplied or the closure a ChainedGenerator   *)
(* made: () => this.base.generate(ctx).                                    *)
(***************************************************************************)
MaxChain == 3
MaxTries == 3
MaxRefines == 2
MaxYields == 3

\* The user functions: (ctx) => <a value of its own>,
\* (ctx) => ctx.super(), and (ctx) => { ctx.super(); }.
Bodies == {"own", "super", "discard"}

createGenerator(id, body) == [kind |-> "functional", id |-> id, body |-> body]

UniqueValueGenerator(maxTries) == [kind |-> "unique", maxTries |-> maxTries]

RefinedGenerator(refineConfig) ==
  [kind |-> "refined", refineConfig |-> refineConfig]

\* A super supplied by the caller of generate.
CallerSuper(throws, value) ==
  [kind |-> "caller", throws |-> throws, value |-> value]

\* A faulty variant: the base runs first and next is its super.
ChainedCallBaseFirst(g, ctx) ==
  [callee |-> g.base,
   ctx |-> [ctx EXCEPT !.super = [kind |-> "chained", base |-> g.next,
                                  ctx |-> ctx]]]

\* ChainedGenerator.generate: the generator called and the ctx it gets.
ChainedCall(g, ctx) ==
  [callee |-> g.next,
   ctx |-> [ctx EXCEPT !.super = [kind |-> "chained", base |-> g.base,
                                  ctx |-> ctx]]]

\* BaseGenerator.extend
extend(this, next) == [kind |-> "chained", base |-> this, next |-> next]

\* DefaultDataTypeGenerator.extend(DefaultRuntimeConfigAwareGenerator)
\*   .extend(DefaultUniqueValueGenerator)
DefaultGenerator ==
  extend(extend([kind |-> "dataType"], [kind |-> "runtimeConfigAware"]),
         UniqueValueGenerator(MaxTries))

Returned(value, env) ==
  [threw |-> FALSE, value |-> value, calls |-> <<>>, env |-> env]

\* The call of one generator or function, put before the calls it made.
Called(layer, id, r) ==
  [r EXCEPT !.calls = <<[layer |-> layer, id |-> id, threw |-> r.threw,
                         value |-> r.value]>> \o @]

\* A value taken from faker.
Draw(env) ==
  Returned(Plain(env.stream[(env.at % Len(env.stream)) + 1]),
           [env EXCEPT !.at = @ + 1])

RECURSIVE generate(_, _, _)

\* ctx.super()
callSuper(ctx, env) ==
  IF ctx.super.kind = "caller"
  THEN Called("caller", 0,
              [threw |-> ctx.super.throws, value |-> ctx.super.value,
               calls |-> <<>>, env |-> env])
  ELSE generate(ctx.super.base, ctx.super.ctx, env)

\* A user function called with ctx.
callFunction(fn, ctx, env) ==
  LET r == callSuper(ctx, env)
  IN Called("function", fn.id,
       CASE fn.body = "own" -> Returned(Plain(fn.id), env)
         [] fn.body = "super" -> r
         [] OTHER -> IF r.threw THEN r ELSE [r EXCEPT !.value = Undefined])

\* The faulty variant of the do-while loop that takes the candidate of the
\* last try before it gives up.
uniqueGivesUpAfterCheck(tries, maxTries, fresh) == ~fresh /\ tries >= maxTries

\* UniqueValueGenerator.generate, the throw inside the do-while loop, after
\* tries++.
uniqueGivesUp(tries, maxTries, fresh) == tries >= maxTries

\* UniqueValueGenerator.generate, the do-while loop from its tries-th pass.
RECURSIVE uniqueLoop(_, _, _, _)
uniqueLoop(g, ctx, env, tries) ==
  LET r == callSuper(ctx, env)
      fresh == r.value \notin r.env.seen
  IN IF r.threw THEN r
     ELSE IF uniqueGivesUp(tries, g.maxTries, fresh)
     THEN [r EXCEPT !.threw = TRUE,
                    !.value = Str("Failed to generate unique value")]
     ELSE IF fresh THEN [r EXCEPT !.env.seen = @ \cup {r.value}]
     ELSE LET more == uniqueLoop(g, ctx, r.env, tries + 1)
          IN [more EXCEPT !.calls = r.calls \o @]

\* The faulty variant of RefinedGenerator.generate's lookup that finds no
\* column function.
refinedFunctionNone(refineConfig, ctx) == [kind |-> "none"]

\* RefinedGenerator.generate:
\* this.refineConfig.tables[ctx.tableKey]?.columns?.[ctx.columnKey]
refinedFunction(refineConfig, ctx) ==
  IF /\ ctx.tableKey \in DOMAIN refineConfig.tables
     /\ ctx.columnKey \in DOMAIN refineConfig.tables[ctx.tableKey].columns
  THEN refineConfig.tables[ctx.tableKey].columns[ctx.columnKey]
  ELSE [kind |-> "none"]

generate(g, ctx, env) ==
  CASE g.kind = "chained" ->
         LET c == ChainedCall(g, ctx) IN generate(c.callee, c.ctx, env)
    [] g.kind = "functional" -> callFunction(g, ctx, env)
    [] g.kind = "refined" ->
         Called("refined", 0,
           IF g.refineConfig.kind = "null" THEN callSuper(ctx, env)
           ELSE LET refined == refinedFunction(g.refineConfig, ctx)
                IN IF refined.kind # "none"
                   THEN callFunction(refined, ctx, env)
                   ELSE callSuper(ctx, env))
    [] g.kind = "unique" ->
         Called("unique", 0,
           IF ~ctx.unique THEN callSuper(ctx, env)
           ELSE uniqueLoop(g, ctx, env, 1))
    [] g.kind = "runtimeConfigAware" ->
         Called("runtimeConfigAware", 0,
           IF ctx.handled THEN Draw(env) ELSE callSuper(ctx, env))
    [] OTHER -> Called("dataType", 0, Draw(env))

\* The FunctionalGenerators in a chain, base first.
RECURSIVE Links(_)
Links(g) ==
  IF g.kind = "chained" THEN Links(g.base) \o Links(g.next)
  ELSE IF g.kind = "none" THEN <<>> ELSE <<g>>

NoFaker == [stream |-> <<0>>, at |-> 0, seen |-> {}]

(***************************************************************************)
(* A chain built with createGenerator(g1).extend(createGenerator(g2))...   *)
(* and called with a ctx that holds only the caller's super                *)
(* (tests/generators.test.ts).                                             *)
(***************************************************************************)
CreateGenerator ==
  /\ generator = NoGenerator
  /\ \E body \in Bodies : generator' = createGenerator(1, body)
  /\ UNCHANGED <<out, config, iteration, yielded>>
  /\ UNCHANGED outsideGenerator

Extend ==
  /\ generator # NoGenerator
  /\ Len(Links(generator)) < MaxChain
  /\ \E body \in Bodies :
       generator' =
         extend(generator, createGenerator(Len(Links(generator)) + 1, body))
  /\ out' = NoCall
  /\ UNCHANGED <<config, iteration, yielded>>
  /\ UNCHANGED outsideGenerator

\* generator.generate({ super: ... }): the caller's super throws
\* "Generator chain ended" or returns a value.
Generate ==
  /\ generator # NoGenerator
  /\ \E super \in {CallerSuper(TRUE, Str("Generator chain ended")),
                   CallerSuper(FALSE, Plain(0))} :
       out' = [kind |-> "call", super |-> super,
               result |-> generate(generator, [super |-> super], NoFaker)]
  /\ UNCHANGED <<generator, config, iteration, yielded>>
  /\ UNCHANGED outsideGenerator

NextChain ==
  \/ CreateGenerator
  \/ Extend
  \/ Generate

\* Nothing else has run: no seeder, no execute().
InitChain == InitProcess

SpecChain == InitChain /\ [][NextChain]_vars

(***************************************************************************)
(* SqliteGenerator (src/src/sqlite-core/generate.ts): generate(schema,     *)
(* { tableOrder, seed }), refine(config) and the iterator.  The schema has *)
(* the tables books and notes, each with the columns id (an integer,       *)
(* unique, which no runtime-config handler takes) and title (a text with a *)
(* length, which the SQLiteText handler generates).  The consumer takes at *)
(* most MaxYields chunks.                                                  *)
(***************************************************************************)
tableOrder == <<"books", "notes">>
tableColumns == <<"id", "title">>
DefaultCount == 50

\* Seeded faker, by the numbers it hands out.
FakerStreams == {<<1, 2, 3, 4>>, <<1, 2, 1, 3>>, <<1, 1, 1, 1>>}

\* The configs passed to the n-th refine(): books has count 2 and for each
\* column no function, (ctx) => <own value> or (ctx) => ctx.super(); notes
\* is left out or has count 1 and no columns.
RefineConfigs(n) ==
  { [kind |-> "config",
     tables |->
       [t \in {"books"} \cup (IF withNotes THEN {"notes"} ELSE {}) |->
          IF t = "books"
          THEN [count |-> 2,
                columns |->
                  [c \in {c \in {"id", "title"} : f[c] # "none"} |->
                     [kind |-> "function",
                      id |-> 10 * n + (IF c = "id" THEN 1 ELSE 2),
                      body |-> f[c]]]]
          ELSE [count |-> 1, columns |-> [c \in {} |-> 0]]]] :
    f \in [{"id", "title"} -> {"none", "own", "super"}],
    withNotes \in BOOLEAN }

\* The RefinedGenerators of the chain, the first refine() first.
Refinements ==
  SelectSeq(Links(generator), LAMBDA g : g.kind = "refined")

\* refine(config)
Refine ==
  /\ iteration.state = "none"
  /\ out = NoCall
  /\ Len(Refinements) < MaxRefines
  /\ \E c \in RefineConfigs(Len(Refinements) + 1) :
       /\ config' = c
       /\ generator' =
            extend(IF generator = NoGenerator THEN DefaultGenerator
                   ELSE generator,
                   RefinedGenerator(c))
  /\ UNCHANGED <<out, iteration, yielded>>
  /\ UNCHANGED outsideGenerator

\* tableRefinements?.count ?? 50
countOf(t) ==
  IF t \in DOMAIN config.tables THEN config.tables[t].count ELSE DefaultCount

\* The iterator's for loop over columnOrder, from the k-th column: each
\* value is generator.generate(ctx) with a super that throws.
RECURSIVE columnsFrom(_, _, _, _)
columnsFrom(k, self, it, g) ==
  IF k > Len(tableColumns)
  THEN [threw |-> FALSE, error |-> Undefined, self |-> self, it |-> it]
  ELSE LET c == tableColumns[k]
           ctx == [index |-> it.index, tableKey |-> tableOrder[it.table],
                   columnKey |-> c, unique |-> c = "id",
                   handled |-> c = "title",
                   super |-> CallerSuper(TRUE, Str("End of generator chain"))]
           r == generate(g, ctx, [stream |-> it.stream, at |-> it.at,
                                  seen |-> it.seen[c]])
       IN IF r.threw
          THEN [threw |-> TRUE, error |-> r.value, self |-> self, it |-> it]
          ELSE columnsFrom(k + 1,
                 Append(self, [column |-> c, value |-> r.value,
                               calls |-> r.calls]),
                 [it EXCEPT !.at = r.env.at, !.seen[c] = r.env.seen], g)

NoneSeen == [c \in {"id"} |-> {}] @@ [c \in {"title"} |-> {}]

\* The first next(): faker.seed(seed), and the first table's
\* config.tables[tableKey], which throws a TypeError when refine() was
\* never called (config is then {}).
StartIteration ==
  /\ iteration.state = "none"
  /\ out = NoCall
  /\ \E stream \in FakerStreams :
       iteration' =
         IF config.kind = "null"
         THEN [state |-> "threw", error |-> Str("TypeError"), table |-> 1,
               index |-> 0, stream |-> stream, at |-> 0, seen |-> NoneSeen]
         ELSE [state |-> "running", error |-> Undefined, table |-> 1,
               index |-> 0, stream |-> stream, at |-> 0, seen |-> NoneSeen]
  /\ UNCHANGED <<generator, out, config, yielded>>
  /\ UNCHANGED outsideGenerator

\* One pass of the for loop over index: a chunk is yielded, or a generator
\* threw.
Yield ==
  /\ iteration.state = "running"
  /\ Len(yielded) < MaxYields
  /\ LET g == IF generator = NoGenerator THEN DefaultGenerator ELSE generator
         t == tableOrder[iteration.table]
         r == columnsFrom(1, <<>>, iteration, g)
         lastRow == iteration.index + 1 >= countOf(t)
     IN IF r.threw
        THEN /\ iteration' = [iteration EXCEPT !.state = "threw",
                                               !.error = r.error]
             /\ UNCHANGED yielded
        ELSE /\ yielded' = Append(yielded,
                             [tableKey |-> t, index |-> iteration.index,
                              columns |-> r.self])
             /\ iteration' =
                  IF ~lastRow
                  THEN [r.it EXCEPT !.index = @ + 1]
                  ELSE IF iteration.table < Len(tableOrder)
                  THEN [r.it EXCEPT !.table = @ + 1, !.index = 0,
                                    !.seen = NoneSeen]
                  ELSE [r.it EXCEPT !.state = "done"]
  /\ UNCHANGED <<generator, out, config>>
  /\ UNCHANGED outsideGenerator

NextGenerator ==
  \/ Refine
  \/ StartIteration
  \/ Yield

SpecGenerator == InitChain /\ [][NextGenerator]_vars

(***************************************************************************)
(* The Generator class (src/src/generator.ts): a chain of functions, the   *)
(* root first.  Here generator holds the Generator objects made so far,    *)
(* each by its chain, and out the last resolve(baseCtx) call: the value it *)
(* returned and the functions called, in the order they started, each with *)
(* the ctx it got.  A ctx is baseCtx, or baseCtx with super, the closure   *)
(* that calls the function before it in the chain.                         *)
(***************************************************************************)
MaxGenerators == 3

\* Column builders of drizzle-orm/pg-core, by class, data type and the
\* configuration the extension of DefaultGenerators looks at.
ColumnClasses ==
  {"PgText", "PgVarchar", "PgChar", "PgNumeric", "PgTimestampString",
   "PgInterval", "PgInteger"}

dataTypeOf(class) ==
  CASE class \in {"PgText", "PgVarchar", "PgChar"} -> "string"
    [] class = "PgNumeric" -> "string numeric"
    [] class = "PgTimestampString" -> "string timestamp"
    [] class = "PgInterval" -> "string interval"
    [] OTHER -> "number int32"

ColumnDefs ==
  { d \in [class : ColumnClasses, enumValues : BOOLEAN, length : BOOLEAN,
           precision : BOOLEAN, fields : BOOLEAN] :
      /\ d.enumValues => d.class \in {"PgText", "PgVarchar", "PgChar"}
      /\ d.length => d.class \in {"PgVarchar", "PgChar"}
      /\ d.precision => d.class \in {"PgNumeric", "PgTimestampString"}
      /\ d.fields => d.class = "PgInterval" }

BaseContexts == [columnDef : ColumnDefs, index : {0, 5}]

\* defaultColumnDataTypeGenerators[ctx.columnDef.dataType](ctx): string is
\* `string_${index}`, the other types are drawn from faker.
DataTypeValue(ctx) ==
  IF dataTypeOf(ctx.columnDef.class) = "string"
  THEN Str(<<"string_", ctx.index>>)
  ELSE [kind |-> "faker", dataType |-> dataTypeOf(ctx.columnDef.class)]

\* The function DefaultGenerators adds to DataTypeGenerator returns a value
\* of its own on these columns and ctx.super() on the others.
runtimeConfigAnswers(columnDef) ==
  CASE columnDef.class = "PgText" -> columnDef.enumValues
    [] columnDef.class = "PgVarchar" -> columnDef.enumValues \/ columnDef.length
    [] columnDef.class = "PgChar" -> TRUE
    [] columnDef.class = "PgNumeric" -> columnDef.precision
    [] columnDef.class = "PgTimestampString" -> TRUE
    [] columnDef.class = "PgInterval" -> columnDef.fields
    [] OTHER -> FALSE

RuntimeConfigValue(ctx) ==
  [kind |-> "runtimeConfig", class |-> ctx.columnDef.class,
   enumValues |-> ctx.columnDef.enumValues]

\* Root functions: (ctx) => <a value of its own> and DataTypeGenerator's.
RootBodies == {"own", "dataType"}

\* Extension functions: (ctx) => <a value of its own>, (ctx) => ctx.super()
\* and the function of DefaultGenerators.
ExtendedBodies == {"own", "super", "runtimeConfig"}

\* resolve, lines 30-34: the ctx the closure made at index i passes on.
closureCtx(baseCtx, i) ==
  IF i = 1 THEN baseCtx
  ELSE [columnDef |-> baseCtx.columnDef, index |-> baseCtx.index,
        super |-> i - 1]

\* A call of the closure made at index i of the loop of resolve.
RECURSIVE superFn(_, _, _)
superFn(chain, i, baseCtx) ==
  LET fn == chain[i]
      ctx == closureCtx(baseCtx, i)
      call == [at |-> i, fn |-> fn, ctx |-> ctx]
  IN CASE fn.body = "own" ->
            [value |-> Plain(fn.id), calls |-> <<call>>]
       [] fn.body = "dataType" ->
            [value |-> DataTypeValue(ctx), calls |-> <<call>>]
       [] fn.body = "runtimeConfig" /\ runtimeConfigAnswers(ctx.columnDef) ->
            [value |-> RuntimeConfigValue(ctx), calls |-> <<call>>]
       [] OTHER ->
            LET r == superFn(chain, ctx.super, baseCtx)
            IN [r EXCEPT !.calls = <<call>> \o @]

\* Faulty variant: resolve calls the closure of the root.
resolveEntryRoot(chain) == 1

\* resolve, line 38: superFn is the closure the last pass of the loop made.
resolveEntry(chain) == Len(chain)

resolve(chain, baseCtx) == superFn(chain, resolveEntry(chain), baseCtx)

\* Generator.create
create(rootFn) == <<rootFn>>

\* Faulty variant: extend pushes fn to the chain of this.
extendChainPush(objects, k, fn) ==
  Append([objects EXCEPT ![k] = Append(@, fn)], Append(objects[k], fn))

\* Generator.extend on the k-th object: new Generator([...this.chain, fn]).
extendChain(objects, k, fn) == Append(objects, objects[k] \o <<fn>>)

Create ==
  /\ Len(generator.objects) < MaxGenerators
  /\ \E body \in RootBodies :
       generator' =
         [generator EXCEPT
            !.objects = Append(@, create([id |-> 1, body |-> body]))]
  /\ UNCHANGED <<out, config, iteration, yielded>>
  /\ UNCHANGED outsideGenerator

ExtendGenerator ==
  /\ Len(generator.objects) < MaxGenerators
  /\ \E k \in 1..Len(generator.objects) : \E body \in ExtendedBodies :
       /\ Len(generator.objects[k]) < MaxChain
       /\ generator' =
            [generator EXCEPT
               !.objects =
                  extendChain(@, k, [id |-> Len(generator.objects[k]) + 1,
                                     body |-> body])]
  /\ UNCHANGED <<out, config, iteration, yielded>>
  /\ UNCHANGED outsideGenerator

Resolve ==
  /\ \E k \in 1..Len(generator.objects) : \E baseCtx \in BaseContexts :
       out' = [kind |-> "resolve", of |-> k, baseCtx |-> baseCtx,
               result |-> resolve(generator.objects[k], baseCtx)]
  /\ UNCHANGED <<generator, config, iteration, yielded>>
  /\ UNCHANGED outsideGenerator

NextResolve ==
  \/ Create
  \/ ExtendGenerator
  \/ Resolve

\* Nothing else has run: no seeder, no execute(), no BaseGenerator.
InitResolve ==
  /\ SeederAtRest
  /\ seeders = <<>>
  /\ runs = <<>>
  /\ files = [p \in {} |-> {}]
  /\ generator = [kind |-> "Generator", objects |-> <<>>]
  /\ out = NoCall
  /\ config = NoConfig
  /\ iteration = NoIteration
  /\ yielded = <<>>

SpecResolve == InitResolve /\ [][NextResolve]_vars

(***************************************************************************)
(* Observers used by the properties.                                       *)
(***************************************************************************)
Consumed == {consumed[n] : n \in 1..Len(consumed)}

\* The references a consumed chunk holds.
RefsOf(e) == {e.chunk[c] : c \in {k \in DOMAIN e.chunk :
                                    isColumnValueReference(e.chunk[k])}}

Targets(e, t, r) ==
  \E ref \in RefsOf(e) : ref.refTableName = t /\ ref.refRowIndex = r

Calls == 1..Len(inserts)

\* db.insert call k carries row r of table t.
Carries(k, t, r) ==
  /\ inserts[k].table = t
  /\ \E p \in 1..Len(inserts[k].rowIndices) : inserts[k].rowIndices[p] = r

Persisted(t, r) == \E k \in Calls : inserts[k].ok /\ Carries(k, t, r)

\* Position of e in the stream.
StreamPos(e) == CHOOSE n \in 1..Len(consumed) : consumed[n] = e

RowsBefore(t, k) ==
  LET lens == [j \in 1..(k - 1) |->
                 IF inserts[j].ok /\ inserts[j].table = t
                 THEN Len(inserts[j].rows) ELSE 0]
      sum[j \in 0..(k - 1)] == IF j = 0 THEN 0 ELSE sum[j - 1] + lens[j]
  IN sum[k - 1]

\* What the target holds in column c of the row inserted for row r of
\* table t: the value passed to db.insert, or for a column left out of the
\* payload the value the target generated (ids 101, 102, ... per table).
TargetValue(t, r, c) ==
  LET k == CHOOSE j \in Calls : inserts[j].ok /\ Carries(j, t, r)
      p == CHOOSE q \in 1..Len(inserts[k].rowIndices) :
             inserts[k].rowIndices[q] = r
      row == inserts[k].rows[p]
  IN IF c \in DOMAIN row THEN row[c] ELSE Plain(100 + RowsBefore(t, k) + p)


(***************************************************************************)
(* Properties.                                                             *)
(***************************************************************************)

\* C1 (dependency ordering): whenever a db.insert call is issued with a
\* chunk R2 that holds a Reference to a row R1 (of another or of the same
\* table) that came earlier in the stream, a db.insert call carrying R1 was
\* issued earlier and succeeded, and R1 is not in R2's batch.
DependencyOrdering ==
  \A k2 \in Calls : \A e2 \in Consumed :
    Carries(k2, e2.table, e2.rowIndex) =>
      \A e1 \in Consumed :
        (Targets(e2, e1.table, e1.rowIndex) /\ StreamPos(e1) < StreamPos(e2)) =>
          /\ \E k1 \in 1..(k2 - 1) :
               inserts[k1].ok /\ Carries(k1, e1.table, e1.rowIndex)
          /\ ~Carries(k2, e1.table, e1.rowIndex)

\* C1 witness: a dependent of an earlier row of its own table and a
\* dependent of an earlier row of another table have both been inserted.
DependencyOrderingWitness ==
  /\ \E e1, e2 \in Consumed :
       /\ e1.table = e2.table /\ StreamPos(e1) < StreamPos(e2)
       /\ Targets(e2, e1.table, e1.rowIndex)
       /\ Persisted(e2.table, e2.rowIndex)
  /\ \E e1, e2 \in Consumed :
       /\ e1.table # e2.table /\ StreamPos(e1) < StreamPos(e2)
       /\ Targets(e2, e1.table, e1.rowIndex)
       /\ Persisted(e2.table, e2.rowIndex)

\* C2 (exactly once on success): when execute resolves, every chunk taken
\* from the stream was passed to db.insert in exactly one call, which
\* succeeded, and each table's seededCount is the number of chunks
\* consumed for it.
ExactlyOnceOnSuccess ==
  (pc = "done" /\ error = "none") =>
    /\ \A e \in Consumed :
         /\ Cardinality({k \in Calls : Carries(k, e.table, e.rowIndex)}) = 1
         /\ Persisted(e.table, e.rowIndex)
    /\ \A k \in Calls : \A p, q \in 1..Len(inserts[k].rowIndices) :
         inserts[k].rowIndices[p] = inserts[k].rowIndices[q] => p = q
    /\ \A i \in 1..Len(tableStates) :
         tableStates[i].seededCount =
           Cardinality({e \in Consumed : e.table = tableStates[i].name})

\* C2 witness: a successful run of at least two chunks in which a chunk
\* that had to wait in a queue was inserted.
ExactlyOnceOnSuccessWitness ==
  /\ pc = "done" /\ error = "none" /\ Len(consumed) >= 2
  /\ \E e1, e2 \in Consumed :
       /\ StreamPos(e2) < StreamPos(e1)
       /\ Targets(e2, e1.table, e1.rowIndex)

\* C3 (batch ceiling): every batch passed to db.insert has at most
\* floor(SQLITE_MAX_PARAMETERS / columnCount) rows, columnCount being the
\* column count of the table's first chunk.
BatchCeilingRespected ==
  \A k \in Calls :
    Len(inserts[k].rows) <=
      SQLITE_MAX_PARAMETERS \div columnCounts[inserts[k].table]

\* C4 (resolved reference value): the value inserted for a column of a
\* persisted chunk that held Reference(T1, r1, col, transform) is transform
\* applied to the value row r1 of T1 holds in the target for col.
ResolvedReferenceValue ==
  \A e2 \in Consumed : Persisted(e2.table, e2.rowIndex) =>
    \A c \in DOMAIN e2.chunk : isColumnValueReference(e2.chunk[c]) =>
      TargetValue(e2.table, e2.rowIndex, c) =
        ApplyTransform(e2.chunk[c].transformFn,
                       TargetValue(e2.chunk[c].refTableName,
                                   e2.chunk[c].refRowIndex,
                                   e2.chunk[c].refColumnName))

\* Two consumed chunks that each hold a Reference to the other.
TwoCycle(a, b) ==
  /\ a # b
  /\ Targets(a, b.table, b.rowIndex)
  /\ Targets(b, a.table, a.rowIndex)

Names(line, e) == line.table = e.table /\ line.rowIndex = e.rowIndex

Lines == {errorLines[n] : n \in 1..Len(errorLines)}

\* Errors that abort execute from inside flush: a rejected db.insert, a
\* reference met without a store, a stringify that throws.
FlushErrors == {"insert", "resolve", "stringify"}

CompleteFailureReport ==
  error = "unresolved" =>
    \A i \in 1..Len(tableStates) : \A n \in 1..Len(tableStates[i].queue) :
      \E l \in Lines :
        /\ l.table = tableStates[i].name
        /\ l.rowIndex = tableStates[i].queue[n].rowIndex

\* C6 witness: the error was raised with chunks stuck in two tables.
CompleteFailureReportWitness ==
  /\ error = "unresolved"
  /\ Len(tableStates) = 2
  /\ \A i \in 1..2 : Len(tableStates[i].queue) > 0

\* C7 (only unresolved targets are reported): the targets listed for a
\* stuck chunk are exactly its References whose target row has no row in
\* the reference store.
OnlyUnresolvedTargetsReported ==
  error = "unresolved" =>
    \A e \in Consumed :
      {<<l.refTableName, l.refRowIndex>> : l \in {x \in Lines : Names(x, e)}}
      = IF Persisted(e.table, e.rowIndex) THEN {}
        ELSE {<<ref.refTableName, ref.refRowIndex>> :
                ref \in {x \in RefsOf(e) : ~refExists(x, refDb)}}

\* The stream's only chunk with References is e, with a single Reference,
\* to a row of a table with a declared column that the stream never has.
OnlyUnsatisfiable(e) ==
  /\ Cardinality(RefsOf(e)) = 1
  /\ \A o \in Consumed \ {e} : RefsOf(o) = {}
  /\ \A ref \in RefsOf(e) :
       /\ ref.refTableName \in DOMAIN refsConfig
       /\ \A o \in Consumed :
            ~(o.table = ref.refTableName /\ o.rowIndex = ref.refRowIndex)

\* C8 (unsatisfiable target): when the only Reference of the stream targets
\* a row that is never produced and no db.insert is rejected, execute
\* fails with the unresolved-references error, whose only line is the one
\* for that chunk and that target, and every other chunk was persisted.
UnsatisfiableTarget ==
  \A e \in Consumed :
    (pc = "done" /\ OnlyUnsatisfiable(e) /\ \A k \in Calls : inserts[k].ok) =>
      /\ error = "unresolved"
      /\ Len(errorLines) = 1
      /\ Names(errorLines[1], e)
      /\ \A ref \in RefsOf(e) :
           /\ errorLines[1].refTableName = ref.refTableName
           /\ errorLines[1].refRowIndex = ref.refRowIndex
           /\ errorLines[1].refColumnName = ref.refColumnName
      /\ \A o \in Consumed \ {e} : Persisted(o.table, o.rowIndex)
      /\ ~Persisted(e.table, e.rowIndex)

\* C8 witness: such a run ended, with other chunks in the stream.
UnsatisfiableTargetWitness ==
  /\ pc = "done" /\ Len(consumed) >= 2
  /\ \A k \in Calls : inserts[k].ok
  /\ \E e \in Consumed : OnlyUnsatisfiable(e) /\ e.table = "notes"
       /\ Targets(e, "books", 0)

\* C9 (unconditional teardown): when execute has ended after the reference
\* store was created, cleanup has run exactly once and no store is open.
UnconditionalTeardown ==
  (pc = "done" /\ sqliteDb # "null") =>
    cleanupCalls = 1 /\ sqliteDb = "closed"

\* C10 (persistence failure): a rejected db.insert is the last db.insert
\* call of the run; execute has rejected with that error and the reference
\* store, if there was one, is torn down.
PersistenceFailure ==
  \A k \in Calls : ~inserts[k].ok =>
    /\ k = Len(inserts)
    /\ pc = "done" /\ error = "insert"
    /\ sqliteDb \in {"null", "closed"}
    /\ cleanupCalls = IF hasRefs THEN 1 ELSE 0

\* C10 witness: an insert was rejected after an earlier one succeeded,
\* with a store, while chunks were still waiting in a batch or a queue.
PersistenceFailureWitness ==
  /\ error = "insert" /\ Len(inserts) >= 2 /\ sqliteDb = "closed"
  /\ \E i \in 1..Len(tableStates) :
       /\ tableStates[i].name # inserts[Len(inserts)].table
       /\ Len(tableStates[i].batch) + Len(tableStates[i].queue) > 0

\* The entry of tableStates for table t (the table has been seen).
StateOf(t) == tableStates[TableIndex(tableStates, t)]

InBatch(e) ==
  \E p \in 1..Len(StateOf(e.table).rowIndices) :
    StateOf(e.table).rowIndices[p] = e.rowIndex

InQueue(e) ==
  \E p \in 1..Len(StateOf(e.table).queue) :
    StateOf(e.table).queue[p].rowIndex = e.rowIndex

\* The db.insert calls for table t issued after the first n calls of the run.
CallsAfter(t, n) == {k \in Calls : k > n /\ inserts[k].table = t}

\* C11 (no-ref passthrough): a chunk without References is never in a
\* queue; from its arrival it is in its table's batch until the first
\* db.insert call made for its table after it arrived, that call carries
\* it, no other call does, and while the run goes on the call has left the
\* batch without it.
NoRefPassthrough ==
  \A e \in Consumed : RefsOf(e) = {} =>
    /\ ~InQueue(e)
    /\ CallsAfter(e.table, e.at) = {} => InBatch(e)
    /\ \A k \in CallsAfter(e.table, e.at) :
         Carries(k, e.table, e.rowIndex) <=>
           (\A j \in CallsAfter(e.table, e.at) : k <= j)
    /\ (CallsAfter(e.table, e.at) # {} /\ pc = "stream") =>
         Persisted(e.table, e.rowIndex) /\ ~InBatch(e)

\* C11 witness: with a reference store, a chunk without References waited
\* in its batch while another table was flushed and was then persisted by
\* its table's next flush, together with a chunk that holds a Reference.
NoRefPassthroughWitness ==
  /\ hasRefs /\ pc = "stream"
  /\ \E e, o \in Consumed :
       /\ RefsOf(e) = {} /\ RefsOf(o) # {} /\ e.table = o.table
       /\ Persisted(e.table, e.rowIndex)
       /\ \E k \in Calls : Carries(k, e.table, e.rowIndex)
                           /\ Carries(k, o.table, o.rowIndex)
                           /\ e.at < k - 1

\* The working states in which execute calls drainAllQueues from the
\* current state: after the flush of a full batch in the for-of loop, for
\* any next chunk, and after the finalizer's flushes.
DrainPoints ==
  IF pc # "stream" \/ sqliteDb # "open" THEN {}
  ELSE {FlushEachFrom(Working(0), 1)}
       \cup (IF Len(consumed) >= MaxChunks THEN {}
             ELSE {flush(ArriveWork(x[1], x[2], 0),
                         TableIndex(ArriveWork(x[1], x[2], 0).ts, x[1])) :
                     x \in {y \in UNION {{<<t, c>> : c \in Chunks(t, RowIndexOf(t))} :
                                           t \in Tables} :
                              BatchFull(ArriveWork(y[1], y[2], 0), y[1])}})

\* C12 (idempotent drain): a second drainAllQueues right after one
\* returned, with no flush in between, changes no batch and no queue and
\* reports no progress.
IdempotentDrain ==
  \A m \in DrainPoints : (m.error = "none" /\ ~DrainThrows(m.ts, m.db)) =>
    LET d == drainAllQueues(m)
        dd == drainAllQueues(d)
    IN dd = d /\ ~anyProgress(d, dd)

\* C12 witness: a drain after a flush in the for-of loop that moved two
\* entries of one queue.
IdempotentDrainWitness ==
  /\ Len(consumed) < MaxChunks
  /\ \E m \in DrainPoints \ {FlushEachFrom(Working(0), 1)} :
       /\ m.error = "none" /\ ~DrainThrows(m.ts, m.db)
       /\ \E i \in 1..Len(m.ts) :
            Len(m.ts[i].queue) >= Len(drainAllQueues(m).ts[i].queue) + 2

\* C13 (termination): execute settles, with success or an error, for every
\* finite stream; no while loop goes on for ever.
ExecuteTerminates == <>(pc = "done")

\* C13 witness: the final drain loop is about to end after a drain that
\* made no progress; its earlier round moved and persisted a chunk that had
\* arrived before its target (batches of two rows, so that nothing was
\* flushed before the stream ended).
ExecuteTerminatesWitness ==
  /\ pc = "flushAll" /\ frame.ret = "loop" /\ ~frame.anyProgress
  /\ frame.i > Len(tableStates)
  /\ \A t \in Tables : getBatchSizeForTable(columnCounts[t]) = 2
  /\ Len(consumed) = 2
  /\ \E e1, e2 \in Consumed :
       /\ StreamPos(e2) < StreamPos(e1)
       /\ Targets(e2, e1.table, e1.rowIndex)
       /\ Persisted(e2.table, e2.rowIndex)

InProgress == {r \in 1..Len(runs) : runs[r].state = "running"}

\* C14 (store location unique per run): two runs in progress at the same
\* time, also two started from one seeder, have different store paths, and
\* a run's store file is there, with the rows of that run only.
StoreLocationUniquePerRun ==
  \A r1 \in InProgress :
    /\ \A r2 \in InProgress \ {r1} : runs[r1].tempPath # runs[r2].tempPath
    /\ runs[r1].tempPath \in DOMAIN files
    /\ \A row \in files[runs[r1].tempPath] : row.writer = r1

\* C15 (round-trip serialization): the value inserted for a column that
\* held a Reference with the identity transform is the value the target
\* chunk holds in the referenced column, whatever its type.
RoundTripSerialization ==
  \A e2 \in Consumed : Persisted(e2.table, e2.rowIndex) =>
    \A c \in DOMAIN e2.chunk :
      (isColumnValueReference(e2.chunk[c])
         /\ e2.chunk[c].transformFn = "identity") =>
        \A e1 \in Consumed :
          (e1.table = e2.chunk[c].refTableName
             /\ e1.rowIndex = e2.chunk[c].refRowIndex) =>
            TargetValue(e2.table, e2.rowIndex, c)
              = e1.chunk[e2.chunk[c].refColumnName]

\* C15 witness: a chunk was persisted whose Reference resolved to an object
\* that holds a Date and a bigint.
RoundTripSerializationWitness ==
  \E e1, e2 \in Consumed :
    /\ Persisted(e2.table, e2.rowIndex)
    /\ Targets(e2, e1.table, e1.rowIndex)
    /\ e1.chunk.id = ObjectOf(<<[key |-> "at", value |-> DateOf(1000)],
                               [key |-> "n", value |-> BigIntOf("12")]>>)

\* C16: for a chain createGenerator(g1).extend(g2)...extend(gn) in which
\* every gi calls ctx.super(), one generate call invokes each gi exactly
\* once, in the order gn, ..., g1, and then the super the caller supplied;
\* when that super throws, generate throws its error.
EveryLinkCallsSuper ==
  \A i \in 1..Len(Links(generator)) : Links(generator)[i].body # "own"

GeneratorChainOrder ==
  (out.kind = "call" /\ EveryLinkCallsSuper) =>
    LET n == Len(Links(generator))
        calls == out.result.calls
    IN /\ Len(calls) = n + 1
       /\ \A k \in 1..n :
            calls[k].layer = "function" /\ calls[k].id = n + 1 - k
       /\ calls[n + 1].layer = "caller"
       /\ out.super.throws =>
            /\ out.result.threw
            /\ out.result.value = out.super.value

GeneratorChainOrderWitness ==
  /\ out.kind = "call"
  /\ EveryLinkCallsSuper
  /\ Len(Links(generator)) = MaxChain
  /\ out.super.throws
  /\ out.result.threw
  /\ Len(out.result.calls) = MaxChain + 1

\* C17: in every chunk the iterator yields, a column for which the refine
\* config defines a function holds what that function returned, and the
\* layers below (unique-value, runtime-config-aware, data-type) were called
\* for it only if the function called ctx.super(); a column for which it
\* defines none holds what the layer below the RefinedGenerator returned,
\* and when no refine() defined a function for it no function was called.
LowerLayers == {"unique", "runtimeConfigAware", "dataType"}

\* refineConfig.tables.<t>.columns.<c>, as the user wrote it.
Defines(refineConfig, t, c) ==
  /\ t \in DOMAIN refineConfig.tables
  /\ c \in DOMAIN refineConfig.tables[t].columns

ColumnFunction(t, c) ==
  IF Defines(config, t, c) THEN config.tables[t].columns[c]
  ELSE [kind |-> "none"]

EverRefined(t, c) ==
  \E i \in 1..Len(Refinements) : Defines(Refinements[i].refineConfig, t, c)

CascadeUntilStable ==
  (pc = "stream" /\ error = "none") =>
    \A i \in 1..Len(tableStates) :
      Len(tableStates[i].batch) < tableStates[i].batchSize

\* C19: when the for-of loop is about to take the next chunk, and when the
\* check for stuck items runs, no queued entry is eligible: each has a
\* reference whose target row has no entry in the reference store.
StoreHas(t, r) == t \in DOMAIN refDb /\ r \in DOMAIN refDb[t]

AtFixpointPoint == pc \in {"stream", "check"} /\ error = "none"

GlobalDrainFixpoint ==
  AtFixpointPoint =>
    \A i \in 1..Len(tableStates) : \A k \in 1..Len(tableStates[i].queue) :
      \E j \in 1..Len(tableStates[i].queue[k].pendingRefs) :
        ~StoreHas(tableStates[i].queue[k].pendingRefs[j].refTableName,
                  tableStates[i].queue[k].pendingRefs[j].refRowIndex)

\* A flush wrote to the store, the drain after it moved one entry and left
\* another behind, and the stream goes on.
GlobalDrainFixpointWitness ==
  /\ pc = "stream"
  /\ error = "none"
  /\ \E i \in 1..Len(tableStates) : Len(tableStates[i].queue) > 0
  /\ \E e \in Consumed :
       /\ RefsOf(e) # {}
       /\ Persisted(e.table, e.rowIndex)
       /\ \E k \in Calls : k > e.at + 1 /\ Carries(k, e.table, e.rowIndex)

\* The check for stuck items is reached with an entry still queued, after
\* the final drain moved another.
StuckCheckAtFixpointWitness ==
  /\ pc = "check"
  /\ error = "none"
  /\ frame.anyProgress = FALSE
  /\ \E i \in 1..Len(tableStates) : Len(tableStates[i].queue) > 0
  /\ Len(inserts) >= 2

\* C20: every chunk in a table's batch has, for each of its References, a
\* row of the target in the reference store, so that resolving it in
\* flush finds the row; execute never rejects because a Reference could
\* not be looked up or resolved, and no row passed to db.insert holds
\* undefined in a column whose chunk value is a Reference.
ReadyRefsStored ==
  \A i \in 1..Len(tableStates) : \A k \in 1..Len(tableStates[i].batch) :
    LET refs == extractRefs(tableStates[i].batch[k])
    IN \A j \in 1..Len(refs) :
         StoreHas(refs[j].refTableName, refs[j].refRowIndex)

NoUndefinedForReference ==
  \A k \in Calls : \A p \in 1..Len(inserts[k].rows) : \A e \in Consumed :
    (e.table = inserts[k].table /\ e.rowIndex = inserts[k].rowIndices[p]) =>
      \A c \in DOMAIN inserts[k].rows[p] :
        isColumnValueReference(e.chunk[c]) => inserts[k].rows[p][c] # Undefined

ResolutionNeverMisses ==
  /\ ReadyRefsStored
  /\ error \notin {"resolve", "lookup"}
  /\ NoUndefinedForReference

\* C21 (store entries are write-once): an entry of the reference store for
\* (table, rowIndex) is written once, in the step whose db.insert call
\* carried that row and succeeded: no INSERT into the store hits a
\* _rowIndex that is already there, every entry is a row of a db.insert
\* call that succeeded, a new entry appears only together with the call
\* that carries its row, and an entry that is there stays as it is.
NewEntries(t) ==
  DOMAIN refDb'[t] \ (IF t \in DOMAIN refDb THEN DOMAIN refDb[t] ELSE {})

StoreWriteOnce ==
  /\ [](/\ error # "constraint"
        /\ \A t \in DOMAIN refDb : \A r \in DOMAIN refDb[t] : Persisted(t, r))
  /\ [][/\ \A t \in DOMAIN refDb :
            /\ t \in DOMAIN refDb'
            /\ \A r \in DOMAIN refDb[t] :
                 r \in DOMAIN refDb'[t] /\ refDb'[t][r] = refDb[t][r]
        /\ \A t \in DOMAIN refDb' : \A r \in NewEntries(t) :
            /\ Len(inserts') = Len(inserts) + 1
            /\ inserts'[Len(inserts')].ok
            /\ inserts'[Len(inserts')].table = t
            /\ \E p \in 1..Len(inserts'[Len(inserts')].rowIndices) :
                 inserts'[Len(inserts')].rowIndices[p] = r]_vars

\* C21 witness: the run is over, a table's store holds two entries that
\* were written by two db.insert steps, and a rejected db.insert left no
\* entry for its row.
StoreWriteOnceWitness ==
  /\ pc = "done"
  /\ \E t \in DOMAIN refDb : \E r1, r2 \in DOMAIN refDb[t] :
       /\ r1 # r2
       /\ \E k1, k2 \in Calls :
            k1 # k2 /\ Carries(k1, t, r1) /\ Carries(k2, t, r2)
  /\ \E k \in Calls : \E r \in 0..MaxChunks :
       /\ ~inserts[k].ok /\ Carries(k, inserts[k].table, r)
       /\ inserts[k].table \in DOMAIN refDb
       /\ r \notin DOMAIN refDb[inserts[k].table]

\* C22 (store existence is the persistence truth): whenever the for-of
\* loop is about to take a chunk, for every chunk consumed so far the
\* reference store has an entry for (table, rowIndex) if and only if a
\* db.insert call that carried the row succeeded.
StoreIsPersistenceTruth ==
  (pc = "stream" /\ error = "none") =>
    \A e \in Consumed :
      StoreHas(e.table, e.rowIndex) <=> Persisted(e.table, e.rowIndex)

\* The same for the tables that refsConfig names, which are the tables
\* createRefDatabase makes a store table for.
StoreIsPersistenceTruthOfRefTables ==
  (pc = "stream" /\ error = "none") =>
    \A e \in Consumed : e.table \in DOMAIN refsConfig =>
      (StoreHas(e.table, e.rowIndex) <=> Persisted(e.table, e.rowIndex))

\* C23 (the store key is the original row sequence): the k-th chunk
\* consumed for a table has rowIndex k - 1; a table's batch and rowIndices
\* have equal length and every row of a batch or of a queue, every row
\* passed to db.insert and every store entry is held under the rowIndex
\* its chunk got when it was consumed.
IsChunkOf(t, r, chunk) ==
  \E e \in Consumed : e.table = t /\ e.rowIndex = r /\ e.chunk = chunk

RowSequenceKept ==
  /\ \A n \in 1..Len(consumed) :
       consumed[n].rowIndex =
         Cardinality({j \in 1..(n - 1) : consumed[j].table = consumed[n].table})
  /\ \A i \in 1..Len(tableStates) :
       LET s == tableStates[i]
       IN /\ Len(s.batch) = Len(s.rowIndices)
          /\ \A p \in 1..Len(s.batch) :
               IsChunkOf(s.name, s.rowIndices[p], s.batch[p])
          /\ \A q \in 1..Len(s.queue) :
               IsChunkOf(s.name, s.queue[q].rowIndex, s.queue[q].chunk)
  /\ \A k \in Calls :
       /\ Len(inserts[k].rows) = Len(inserts[k].rowIndices)
       /\ \A p \in 1..Len(inserts[k].rows) :
            \E e \in Consumed :
              /\ e.table = inserts[k].table
              /\ e.rowIndex = inserts[k].rowIndices[p]
              /\ \A c \in DOMAIN inserts[k].rows[p] :
                   isColumnValueReference(e.chunk[c])
                     \/ inserts[k].rows[p][c] = e.chunk[c]
  /\ \A t \in DOMAIN refDb : \A r \in DOMAIN refDb[t] :
       \E e \in Consumed :
         /\ e.table = t /\ e.rowIndex = r
         /\ refDb[t][r] = [c \in refsConfig[t] |-> stringify(e.chunk[c])]

\* C23 witness: a chunk that waited in the queue was inserted after a
\* chunk of its table that arrived later, and both have their store entry;
\* the table's chunks differ in their id.
RowSequenceKeptWitness ==
  \E e1, e2 \in Consumed :
    /\ e1.table = e2.table /\ e1.rowIndex < e2.rowIndex
    /\ e1.table \notin autoId
    /\ StoreHas(e1.table, e1.rowIndex) /\ StoreHas(e2.table, e2.rowIndex)
    /\ \E k1, k2 \in Calls :
         /\ k2 < k1
         /\ Carries(k1, e1.table, e1.rowIndex)
         /\ Carries(k2, e2.table, e2.rowIndex)

\* C24 (the unresolved-reference failure comes only from the finalizer):
\* the failure is raised only by the check for stuck items, which is
\* reached after the stream has ended, with every batch flushed and a
\* drain pass unable to move any entry; it is raised there exactly when a
\* queue is non-empty, and no chunk is taken once the stream has ended.
Stuck == \E i \in 1..Len(tableStates) : Len(tableStates[i].queue) > 0

BatchesEmpty == \A i \in 1..Len(tableStates) : Len(tableStates[i].batch) = 0

FailureOnlyFromFinalizer ==
  /\ [](/\ pc = "check" =>
             /\ BatchesEmpty
             /\ IF sqliteDb = "open"
                THEN /\ ~DrainThrows(tableStates, refDb)
                     /\ DrainPass(tableStates, refDb) = tableStates
                ELSE ~Stuck
        /\ error = "unresolved" => (pc = "done" /\ Stuck /\ BatchesEmpty)
        /\ (pc = "done" /\ error = "none") => ~Stuck)
  /\ [][/\ (error' = "unresolved" /\ error # "unresolved") => pc = "check"
        /\ (pc = "check" /\ Stuck) => error' = "unresolved"
        /\ pc \in {"flushAll", "check", "done"} => consumed' = consumed]_vars

\* C24 witness: the run failed with the unresolved-reference error after
\* it had inserted a batch and had drained a queue entry.
FailureOnlyFromFinalizerWitness ==
  /\ pc = "done" /\ error = "unresolved"
  /\ \E k \in Calls : inserts[k].ok
  /\ \E e \in Consumed : RefsOf(e) # {} /\ Persisted(e.table, e.rowIndex)

\* C25 (finalizer sequence and end state): once the stream has ended every
\* table's non-empty batch is flushed whole, whatever its size; the check
\* for stuck items is reached only from the flush loop, when a drain could
\* move nothing more; and when execute resolves every batch and every
\* queue is empty.
FinalizerSequence ==
  /\ []((pc = "done" /\ error = "none") => (BatchesEmpty /\ ~Stuck))
  /\ [][/\ (/\ pc = "flushAll" /\ frame.i <= Len(tableStates)
            /\ Len(tableStates[frame.i].batch) > 0
            /\ error' = "none") =>
             /\ Len(inserts') = Len(inserts) + 1
             /\ inserts'[Len(inserts')].table = tableStates[frame.i].name
             /\ inserts'[Len(inserts')].rowIndices =
                  tableStates[frame.i].rowIndices
             /\ tableStates'[frame.i].batch = <<>>
        /\ (pc # "check" /\ pc' = "check") =>
             /\ pc = "flushAll" /\ frame.i > Len(tableStates)
             /\ BatchesEmpty
             /\ sqliteDb = "open" =>
                  DrainPass(tableStates, refDb) = tableStates]_vars

\* C25 witness: execute resolved after the finalizer flushed a batch below
\* its ceiling, whose row then let a waiting chunk through in the final
\* drain loop.
FinalizerSequenceWitness ==
  /\ pc = "done" /\ error = "none"
  /\ \E e1, e2 \in Consumed :
       /\ StreamPos(e2) < StreamPos(e1)
       /\ Targets(e2, e1.table, e1.rowIndex)
       /\ \E k \in Calls :
            /\ Carries(k, e1.table, e1.rowIndex)
            /\ Len(inserts[k].rows) <
                 SQLITE_MAX_PARAMETERS \div columnCounts[e1.table]

\* e2 was consumed before the row it refers to was generated: e1 is a
\* later row of its table or a row of a table that comes later.
ForwardReference(e2, e1) ==
  /\ StreamPos(e2) < StreamPos(e1)
  /\ Targets(e2, e1.table, e1.rowIndex)

AllTargetsPersisted(e) ==
  \A ref \in RefsOf(e) : Persisted(ref.refTableName, ref.refRowIndex)

NextChunks ==
  IF pc # "stream" \/ Len(consumed) >= MaxChunks THEN {}
  ELSE UNION {{<<t, c>> : c \in Chunks(t, RowIndexOf(t))} : t \in Tables}

\* The chunk holds no Reference, or every row it refers to has an entry
\* in the store.
Eligible(chunkData) ==
  \A c \in DOMAIN chunkData : isColumnValueReference(chunkData[c]) =>
    StoreHas(chunkData[c].refTableName, chunkData[c].refRowIndex)

\* The tables other than t are as they were, and of the table t the ready
\* batch got the chunk at its end (toBatch) or the queue did.
PlacedOnArrival(a, t, chunkData, toBatch) ==
  LET old == IF HasTable(tableStates, t) THEN StateOf(t)
             ELSE NewTableState(t, columnCounts[t])
      new == a.ts[TableIndex(a.ts, t)]
  IN /\ \A i \in 1..Len(tableStates) :
          tableStates[i].name # t => a.ts[i] = tableStates[i]
     /\ IF toBatch
        THEN /\ new.batch = Append(old.batch, chunkData)
             /\ new.rowIndices = Append(old.rowIndices, RowIndexOf(t))
             /\ new.queue = old.queue
        ELSE /\ new.batch = old.batch
             /\ new.rowIndices = old.rowIndices
             /\ Len(new.queue) = Len(old.queue) + 1
             /\ SubSeq(new.queue, 1, Len(old.queue)) = old.queue
             /\ new.queue[Len(new.queue)].chunk = chunkData
             /\ new.queue[Len(new.queue)].rowIndex = RowIndexOf(t)

\* C27 (eligibility on arrival): whatever chunk the for-of loop takes next,
\* the chunk is appended to its table's ready batch if it holds no
\* Reference or every row it refers to has a store entry, and to the end
\* of its table's queue otherwise; no other chunk changes place.
EligibilityOnArrival ==
  \A x \in NextChunks :
    PlacedOnArrival(ArriveWork(x[1], x[2], 0), x[1], x[2], Eligible(x[2]))

\* The same for a seeder that has a store, when no lookup throws.
EligibilityOnArrivalWithStore ==
  \A x \in NextChunks :
    (hasRefs /\ ArriveWork(x[1], x[2], 0).error = "none") =>
      PlacedOnArrival(ArriveWork(x[1], x[2], 0), x[1], x[2], Eligible(x[2]))

\* C28 (batch ceiling computation): the batchSize of a table is the
\* largest number whose product with the column count of the table's
\* first chunk is at most SQLITE_MAX_PARAMETERS (0 for a table wider than
\* that); it is set when the table's first chunk is seen and neither it
\* nor columnCount changes afterwards.
BatchCeilingComputation ==
  /\ [](\A i \in 1..Len(tableStates) :
          LET s == tableStates[i]
          IN /\ s.columnCount = columnCounts[s.name]
             /\ s.batchSize >= 0
             /\ s.batchSize * s.columnCount <= SQLITE_MAX_PARAMETERS
             /\ (s.batchSize + 1) * s.columnCount > SQLITE_MAX_PARAMETERS
             /\ \E e \in Consumed : e.table = s.name)
  /\ [][\A i \in 1..Len(tableStates) :
          /\ i <= Len(tableStates')
          /\ tableStates'[i].name = tableStates[i].name
          /\ tableStates'[i].batchSize = tableStates[i].batchSize
          /\ tableStates'[i].columnCount = tableStates[i].columnCount]_vars

\* C28 witness: the run is over; one table is wider than a statement has
\* parameters and another took two chunks with room for several rows.
BatchCeilingComputationWitness ==
  /\ pc = "done"
  /\ \E i, j \in 1..Len(tableStates) :
       /\ tableStates[i].columnCount > SQLITE_MAX_PARAMETERS
       /\ tableStates[i].batchSize = 0
       /\ tableStates[j].batchSize >= 2
       /\ tableStates[j].seededCount >= 2

\* The chunk went to the ready batch when it arrived: it holds no
\* Reference, or the seeder has no store, or the db.insert calls made
\* before it was taken had inserted every row it refers to.
DirectOnArrival(e) ==
  \/ ~hasRefs
  \/ \A ref \in RefsOf(e) :
       \E k \in 1..e.at :
         inserts[k].ok /\ Carries(k, ref.refTableName, ref.refRowIndex)

\* Place of row r in the db.insert call k.
PlaceIn(k, r) ==
  CHOOSE p \in 1..Len(inserts[k].rowIndices) : inserts[k].rowIndices[p] = r

\* C29 (per-table FIFO of ready chunks): of two chunks of one table that
\* both went to the ready batch on arrival, the later one is passed to
\* db.insert only in the call that carries the earlier one, behind it, or
\* in a later call; and a chunk is taken from the stream only when no
\* flush or drain is under way.
ReadyFifo ==
  /\ [](\A e1, e2 \in Consumed :
          (/\ e1.table = e2.table /\ e1.rowIndex < e2.rowIndex
           /\ DirectOnArrival(e1) /\ DirectOnArrival(e2)) =>
            \A k2 \in Calls : Carries(k2, e2.table, e2.rowIndex) =>
              \E k1 \in 1..k2 :
                /\ Carries(k1, e1.table, e1.rowIndex)
                /\ k1 = k2 => PlaceIn(k1, e1.rowIndex) < PlaceIn(k2, e2.rowIndex))
  /\ [][consumed' # consumed => (pc = "stream" /\ frame = NoFrame)]_vars

\* C29 witness: two chunks of a table that went to the ready batch on
\* arrival were passed to db.insert in one call, and a third chunk of the
\* run had to wait in a queue.
ReadyFifoWitness ==
  /\ pc = "done"
  /\ \E e1, e2 \in Consumed : \E k \in Calls :
       /\ e1.table = e2.table /\ e1.rowIndex < e2.rowIndex
       /\ DirectOnArrival(e1) /\ DirectOnArrival(e2)
       /\ Carries(k, e1.table, e1.rowIndex)
       /\ Carries(k, e2.table, e2.rowIndex)
  /\ \E e \in Consumed : hasRefs /\ ~DirectOnArrival(e)

\* C30 (placeholders are omitted): the row passed to db.insert for a chunk
\* has exactly the chunk's columns that are not a GeneratedAsPlaceholder;
\* a column that holds a plain value has that value, and a column that
\* holds a Reference has the Reference's transform applied to the parsed
\* store entry of the row and column it names.
PlaceholdersOmitted ==
  \A k \in Calls : \A p \in 1..Len(inserts[k].rows) :
    \A e \in Consumed :
      (e.table = inserts[k].table /\ e.rowIndex = inserts[k].rowIndices[p]) =>
        LET row == inserts[k].rows[p]
        IN /\ DOMAIN row =
                {c \in DOMAIN e.chunk : ~isGeneratedAsPlaceholder(e.chunk[c])}
           /\ \A c \in DOMAIN row :
                IF isColumnValueReference(e.chunk[c])
                THEN LET ref == e.chunk[c]
                     IN /\ StoreHas(ref.refTableName, ref.refRowIndex)
                        /\ row[c] =
                             ApplyTransform(ref.transformFn,
                               parse(refDb[ref.refTableName][ref.refRowIndex]
                                          [ref.refColumnName]))
                ELSE row[c] = e.chunk[c]

\* C30 witness: a db.insert call carried a row whose chunk had a
\* placeholder id and a Reference with the transform (v) => v + 1 next to
\* a plain column.
PlaceholdersOmittedWitness ==
  \E k \in Calls : \E e \in Consumed :
    /\ Carries(k, e.table, e.rowIndex)
    /\ isGeneratedAsPlaceholder(e.chunk.id)
    /\ isColumnValueReference(e.chunk.fk)
    /\ e.chunk.fk.transformFn = "inc"
    /\ ~isColumnValueReference(e.chunk.fk2)
    /\ inserts[k].rows[PlaceIn(k, e.rowIndex)].fk.kind = "plain"

(***************************************************************************)
(* C31                                                                     *)
(***************************************************************************)
Declared == DOMAIN refsConfig # {}

\* C31 (lazy store): once execute has begun, the seeder has a reference
\* store if and only if the refine config declares a referenceable column;
\* without one there is no store and no store row, drainAllQueues and the
\* cascade are never entered, no queue holds a chunk, and whatever chunk
\* the for-of loop takes next is appended to its table's ready batch.
LazyStore ==
  /\ (sqliteDb # "null") <=> (pc # "new" /\ Declared)
  /\ ~Declared =>
       /\ DOMAIN refDb = {}
       /\ cleanupCalls = 0
       /\ pc \notin {"drain", "cascade"}
       /\ frame.ret \in {"none", "first"}
       /\ \A i \in 1..Len(tableStates) : tableStates[i].queue = <<>>
       /\ \A x \in NextChunks :
            PlacedOnArrival(ArriveWork(x[1], x[2], 0), x[1], x[2], TRUE)

\* C31 witness: a run without declared columns took chunks of two tables,
\* one of them holding no Reference in a table flushed on arrival, and
\* ended well with every chunk persisted and no store.
LazyStoreWitness ==
  /\ ~Declared /\ pc = "done" /\ error = "none"
  /\ sqliteDb = "null"
  /\ \E e, o \in Consumed : e.table # o.table
  /\ \A e \in Consumed : Persisted(e.table, e.rowIndex)
  /\ \E k \in Calls : Len(inserts[k].rows) > 1

(***************************************************************************)
(* C32                                                                     *)
(***************************************************************************)
\* C32 (only declared columns are recorded): the store has rows only for
\* tables of the refine config's refs; a store row holds exactly the
\* columns declared for its table, each with the serialized value the
\* chunk of that row has in the column, and belongs to a chunk a db.insert
\* call carried; while no flush has thrown, every chunk of a declared
\* table that a db.insert call carried has its store row.
OnlyDeclaredColumnsRecorded ==
  /\ DOMAIN refDb \subseteq DOMAIN refsConfig
  /\ \A t \in DOMAIN refDb : \A r \in DOMAIN refDb[t] :
       /\ DOMAIN refDb[t][r] = refsConfig[t]
       /\ \E e \in Consumed :
            /\ e.table = t /\ e.rowIndex = r
            /\ \A c \in refsConfig[t] :
                 refDb[t][r][c] = stringify(e.chunk[c])
       /\ Persisted(t, r)
  /\ error = "none" =>
       \A e \in Consumed :
         (e.table \in DOMAIN refsConfig /\ Persisted(e.table, e.rowIndex))
           => e.rowIndex \in DOMAIN refDb[e.table]

\* C32 witness: with only books.id declared, a books chunk and a notes
\* chunk that holds a Reference were flushed; the store has the books row
\* with the id column alone and nothing for notes.
OnlyDeclaredColumnsRecordedWitness ==
  /\ DOMAIN refsConfig = {"books"} /\ error = "none"
  /\ \E e, o \in Consumed :
       /\ e.table = "books" /\ o.table = "notes" /\ RefsOf(o) # {}
       /\ Persisted(e.table, e.rowIndex)
       /\ Persisted(o.table, o.rowIndex)
       /\ DOMAIN refDb = {"books"}
       /\ DOMAIN refDb["books"][e.rowIndex] = {"id"}
       /\ DOMAIN e.chunk = {"id", "fk", "fk2"}

(***************************************************************************)
(* C33                                                                     *)
(***************************************************************************)
\* The chain resolve was called on, and what the call did.
ResolvedChain == generator.objects[out.of]

\* Above index i, every function of the chain calls ctx.super() on ctx.
CallsSuperAbove(chain, i, columnDef) ==
  \A j \in (i + 1)..Len(chain) :
    \/ chain[j].body = "super"
    \/ chain[j].body = "runtimeConfig" /\ ~runtimeConfigAnswers(columnDef)

\* resolve calls the last function first, ctx.super() inside one function
\* calls the function before it, every function gets the fields of
\* baseCtx, the root gets no super, and a function that returns a value of
\* its own ends the calls with that value.
ResolveOrder ==
  out.kind = "resolve" =>
    LET chain == ResolvedChain
        calls == out.result.calls
        n == Len(chain)
    IN /\ Len(calls) >= 1
       /\ calls[1].at = n
       /\ \A k \in 1..Len(calls) :
            /\ calls[k].at = n + 1 - k
            /\ calls[k].fn = chain[calls[k].at]
            /\ calls[k].ctx.columnDef = out.baseCtx.columnDef
            /\ calls[k].ctx.index = out.baseCtx.index
            /\ ("super" \in DOMAIN calls[k].ctx) <=> (calls[k].at > 1)
            /\ k < Len(calls) =>
                 CallsSuperAbove(chain, calls[k].at - 1,
                                 out.baseCtx.columnDef)
       /\ \A i \in 1..n :
            (chain[i].body = "own"
             /\ CallsSuperAbove(chain, i, out.baseCtx.columnDef)) =>
              /\ out.result.value = Plain(chain[i].id)
              /\ calls[Len(calls)].at = i

\* extend adds a Generator and leaves the ones there as they were.
ExtendLeavesOriginal ==
  /\ Len(generator'.objects) >= Len(generator.objects)
  /\ \A k \in 1..Len(generator.objects) :
       generator'.objects[k] = generator.objects[k]

\* DefaultGenerators: DataTypeGenerator.extend(<the runtime-config function>).
IsDefaultGenerators(chain) ==
  /\ Len(chain) = 2
  /\ chain[1].body = "dataType"
  /\ chain[2].body = "runtimeConfig"

RootAnswered ==
  /\ out.result.value = DataTypeValue(out.baseCtx)
  /\ Len(out.result.calls) = 2
  /\ out.result.calls[2].at = 1

ConsumedOf(t) == {e \in Consumed : e.table = t}

\* Rows of table t passed to db.insert calls that succeeded.
RowsInserted(t) == RowsBefore(t, Len(inserts) + 1)

ExactlyOne(a, b, c) == (a /\ ~b /\ ~c) \/ (~a /\ b /\ ~c) \/ (~a /\ ~b /\ c)

ConservedIn(t) ==
  IF ~HasTable(tableStates, t) THEN ConsumedOf(t) = {}
  ELSE /\ Cardinality(ConsumedOf(t)) =
            StateOf(t).seededCount + Len(StateOf(t).batch)
              + Len(StateOf(t).queue)
       /\ \A e \in ConsumedOf(t) :
            ExactlyOne(Persisted(t, e.rowIndex), InBatch(e), InQueue(e))
       /\ StateOf(t).seededCount = RowsInserted(t)

\* C34 (chunk conservation): for every table, the chunks taken from the
\* stream for it are as many as seededCount + batch.length + queue.length,
\* each of them is in exactly one of: persisted, batch, queue, and
\* seededCount is the number of rows passed to db.insert calls that
\* succeeded.
ChunkConservation == \A t \in Tables : ConservedIn(t)

\* The same in the states that no throw of a store operation (a lookup on
\* a missing store table, a stringify of a Reference) has left behind.
ChunkConservationUntilStoreThrows ==
  error \notin {"lookup", "stringify", "constraint"} => ChunkConservation

(***************************************************************************)
(* C35                                                                     *)
(***************************************************************************)
\* Every Reference of e targets a chunk of the stream, and so on from
\* there, down to chunks without References, in at most d steps.
RECURSIVE GroundedWithin(_, _)
GroundedWithin(e, d) ==
  \A ref \in RefsOf(e) :
    /\ d > 0
    /\ \E o \in Consumed :
         /\ o.table = ref.refTableName /\ o.rowIndex = ref.refRowIndex
         /\ GroundedWithin(o, d - 1)

Grounded(e) == GroundedWithin(e, Len(consumed))

\* The unresolved-references failure is raised only with a chunk in the
\* stream whose target is never produced or that lies on or behind a
\* cycle, and the chunks left in the queues are of that kind.
StuckOnlyIfUngrounded ==
  error = "unresolved" =>
    /\ \E e \in Consumed : ~Grounded(e)
    /\ \A e \in Consumed : InQueue(e) => ~Grounded(e)

\* The environment did its part: the store file could be made and no
\* db.insert was rejected.
AllGroundedSucceeds ==
  (/\ pc = "done"
   /\ error # "create"
   /\ \A k \in Calls : inserts[k].ok
   /\ \A e \in Consumed : Grounded(e)) =>
    /\ error = "none"
    /\ \A e \in Consumed : Persisted(e.table, e.rowIndex)

\* C35 (no false stuck report): execute fails with the unresolved-references
\* error only if some chunk of the stream holds a Reference whose target is
\* never produced or which lies on or behind a cycle; and when every
\* Reference's target chain ends in chunks without References, the store
\* could be made and no db.insert is rejected, the run, whatever the order
\* of the stream, ends well with every chunk persisted.
NoFalseStuckReport == StuckOnlyIfUngrounded /\ AllGroundedSucceeds

\* The References of the stream name tables of the refine config's refs,
\* and no chunk holds a Reference in a column declared for its table.
ReferencesDeclared ==
  \A e \in Consumed :
    /\ \A ref \in RefsOf(e) : ref.refTableName \in DOMAIN refsConfig
    /\ \A c \in DOMAIN e.chunk :
         (e.table \in DOMAIN refsConfig /\ c \in refsConfig[e.table])
           => ~isColumnValueReference(e.chunk[c])

\* The same for streams whose References are declared.
NoFalseStuckReportOfDeclared ==
  /\ StuckOnlyIfUngrounded
  /\ ReferencesDeclared => AllGroundedSucceeds

(***************************************************************************)
(* C36                                                                     *)
(***************************************************************************)
\* The db.insert call that was rejected, and the state of its table.
FailedCall == inserts[Len(inserts)]

\* After a rejected db.insert the table's batch and rowIndices hold the
\* chunks of the failed batch as they were taken from the stream, the store
\* has no entry for any of them, and seededCount counts the rows inserted
\* before.
FailedBatchKept ==
  error = "insert" =>
    LET t == FailedCall.table
        s == StateOf(t)
    IN /\ ~FailedCall.ok
       /\ s.rowIndices = FailedCall.rowIndices
       /\ Len(s.batch) = Len(FailedCall.rows)
       /\ Len(s.batch) > 0
       /\ \A p \in 1..Len(s.batch) :
            /\ \E e \in ConsumedOf(t) :
                 e.rowIndex = s.rowIndices[p] /\ e.chunk = s.batch[p]
            /\ FailedCall.rows[p] = resolveChunk(s.batch[p], refDb)
            /\ t \in DOMAIN refDb => s.rowIndices[p] \notin DOMAIN refDb[t]
       /\ s.seededCount = RowsInserted(t)

\* The step in which db.insert is rejected writes nothing to the store and
\* leaves the other tables as they were, and of the flushed table the
\* seededCount; a flush of the cascade or of the finalizer leaves every
\* table as it was.
FailedInsertStep ==
  (error = "none" /\ error' = "insert") =>
    LET t == inserts'[Len(inserts')].table IN
    /\ refDb' = refDb
    /\ Len(inserts') = Len(inserts) + 1
    /\ \A i \in 1..Len(tableStates) :
         /\ tableStates'[i].seededCount = tableStates[i].seededCount
         /\ tableStates[i].name # t => tableStates'[i] = tableStates[i]
    /\ pc # "stream" => tableStates' = tableStates

\* C36 (a failed insert leaves the state unchanged): when db.insert rejects
\* inside flush, the store has no new entry, the table's seededCount is
\* unchanged, its batch and rowIndices still hold the failed batch, and no
\* other table's state changes.
FailedInsertLeavesState == []FailedBatchKept /\ [][FailedInsertStep]_vars

\* C36 witness: with a store, the insert of a batch of a declared table
\* was rejected after an earlier batch of that table went through, while
\* the other table held a chunk in its queue.
FailedInsertLeavesStateWitness ==
  /\ error = "insert" /\ hasRefs
  /\ FailedCall.table \in DOMAIN refsConfig
  /\ StateOf(FailedCall.table).seededCount > 0
  /\ \E i \in 1..Len(tableStates) :
       /\ tableStates[i].name # FailedCall.table
       /\ Len(tableStates[i].queue) > 0

(***************************************************************************)
(* C37                                                                     *)
(***************************************************************************)
\* The chunk the step took, and its table's entry before and after.
Arrived == consumed'[Len(consumed')]

BeforeArrival ==
  IF HasTable(tableStates, Arrived.table) THEN StateOf(Arrived.table)
  ELSE NewTableState(Arrived.table, columnCounts[Arrived.table])

AfterArrival == tableStates'[TableIndex(tableStates', Arrived.table)]

\* The step took a chunk that cannot bring the batch of its table to
\* batchSize: the batch has room for more than one chunk, or it has room
\* and the chunk went to the queue.
NonFlushingArrival ==
  /\ Len(consumed') = Len(consumed) + 1
  /\ \/ Len(BeforeArrival.batch) + 1 < BeforeArrival.batchSize
     \/ /\ Len(BeforeArrival.batch) < BeforeArrival.batchSize
        /\ Len(AfterArrival.queue) > Len(BeforeArrival.queue)

\* One entry was added, to the batch or to the queue, and the rest is as it
\* was.
ArrivalFrame ==
  /\ inserts' = inserts
  /\ refDb' = refDb
  /\ pc' = "stream" /\ frame' = NoFrame
  /\ <<sqliteDb', cleanupCalls'>> = <<sqliteDb, cleanupCalls>>
  /\ \A i \in 1..Len(tableStates) :
       tableStates[i].name # Arrived.table => tableStates'[i] = tableStates[i]
  /\ Len(tableStates') =
       Len(tableStates) + IF HasTable(tableStates, Arrived.table) THEN 0 ELSE 1
  /\ \/ AfterArrival =
          [BeforeArrival EXCEPT
             !.batch = Append(@, Arrived.chunk),
             !.rowIndices = Append(@, Arrived.rowIndex)]
     \/ AfterArrival =
          [BeforeArrival EXCEPT
             !.queue = Append(@, [chunk |-> Arrived.chunk,
                                  rowIndex |-> Arrived.rowIndex,
                                  pendingRefs |-> extractRefs(Arrived.chunk)])]

\* C37 (frame of a non-flushing arrival): taking a chunk that does not
\* bring the batch of its table to batchSize adds one entry to that
\* table's batch or queue and changes nothing else: no db.insert call, no
\* store write, no drain, no change to another table.
NonFlushingArrivalFrame == [][NonFlushingArrival => ArrivalFrame]_vars

\* The same for the arrivals whose lookup of the store does not throw.
NonFlushingArrivalFrameUnlessThrown ==
  [][(NonFlushingArrival /\ error' # "lookup") => ArrivalFrame]_vars

(***************************************************************************)
(* C38                                                                     *)
(***************************************************************************)
\* The value chunk y holds in column c.
YieldedValue(y, c) ==
  LET k == CHOOSE j \in 1..Len(yielded[y].columns) :
             yielded[y].columns[j].column = c
  IN yielded[y].columns[k].value

DistinctIn(t, c) ==
  \A y1, y2 \in 1..Len(yielded) :
    (y1 # y2 /\ yielded[y1].tableKey = t /\ yielded[y2].tableKey = t)
      => YieldedValue(y1, c) # YieldedValue(y2, c)

\* C38 (unique columns stay unique): the chunks one iteration yields for a
\* table hold pairwise distinct values in the unique column id (a value
\* that could not be made distinct is not yielded: the iteration throws),
\* whether the default layers or a column function of refine made them.
UniqueColumnsStayUnique ==
  \A i \in 1..Len(tableOrder) : DistinctIn(tableOrder[i], "id")

\* The same for the tables whose id no refine config gave a function.
UniqueColumnsStayUniqueByDefault ==
  \A i \in 1..Len(tableOrder) :
    ~EverRefined(tableOrder[i], "id") => DistinctIn(tableOrder[i], "id")

\* Two chunks of a table came from the default layers, one of them after
\* a duplicate was drawn and retried.
UniqueByDefaultWitness ==
  /\ ~EverRefined("books", "id")
  /\ \E y1, y2 \in 1..Len(yielded) :
       /\ y1 < y2
       /\ yielded[y1].tableKey = "books" /\ yielded[y2].tableKey = "books"
       /\ Len(yielded[y2].columns[1].calls) > Len(yielded[y1].columns[1].calls)

(***************************************************************************)
(* C39                                                                     *)
(***************************************************************************)
\* The default layers with a UniqueValueGenerator(n) on top, called for the
\* unique column id of the chunk the iterator is at.
DefaultChainWith(n) ==
  extend(extend([kind |-> "dataType"], [kind |-> "runtimeConfigAware"]),
         UniqueValueGenerator(n))

UniqueCall(n) ==
  generate(DefaultChainWith(n),
           [index |-> iteration.index, tableKey |-> tableOrder[iteration.table],
            columnKey |-> "id", unique |-> TRUE, handled |-> FALSE,
            super |-> CallerSuper(TRUE, Str("End of generator chain"))],
           [stream |-> iteration.stream, at |-> iteration.at,
            seen |-> iteration.seen["id"]])

\* The calls of ctx.super() the UniqueValueGenerator made.
SuperCalls(r) ==
  Cardinality({j \in 1..Len(r.calls) : r.calls[j].layer = "runtimeConfigAware"})

\* What the k-th call of ctx.super() returns, and the tries among the first
\* n whose candidate the checker has not seen.
Candidate(k) ==
  Plain(iteration.stream[((iteration.at + k - 1) % Len(iteration.stream)) + 1])

FreshTries(n) == {k \in 1..n : Candidate(k) \notin iteration.seen["id"]}

FirstOf(tries) == CHOOSE k \in tries : \A j \in tries : k <= j

ReturnsTry(r, k) ==
  /\ ~r.threw
  /\ r.value = Candidate(k)
  /\ SuperCalls(r) = k
  /\ r.env.seen = iteration.seen["id"] \cup {Candidate(k)}

GivesUpAfter(r, n) ==
  /\ r.threw
  /\ r.value = Str("Failed to generate unique value")
  /\ SuperCalls(r) = n
  /\ r.env.seen = iteration.seen["id"]

\* C39 (unique-value retry cap): for a column with a duplicateChecker,
\* UniqueValueGenerator.generate calls ctx.super() at most maxTries times,
\* returns the first candidate the checker has not seen, adding it, and
\* throws only when all maxTries candidates were duplicates; a fresh
\* candidate of try number maxTries is returned, also with maxTries = 1.
UniqueRetryCap ==
  iteration.state = "running" =>
    \A n \in 1..MaxTries :
      /\ SuperCalls(UniqueCall(n)) <= n
      /\ IF FreshTries(n) # {}
         THEN ReturnsTry(UniqueCall(n), FirstOf(FreshTries(n)))
         ELSE GivesUpAfter(UniqueCall(n), n)

\* What the do-while loop does: the candidate of try number maxTries is
\* never looked at.
UniqueRetryCapOneShort ==
  iteration.state = "running" =>
    \A n \in 1..MaxTries :
      /\ SuperCalls(UniqueCall(n)) <= n
      /\ IF FreshTries(n - 1) # {}
         THEN ReturnsTry(UniqueCall(n), FirstOf(FreshTries(n - 1)))
         ELSE GivesUpAfter(UniqueCall(n), n)

====
